---- MODULE Spec2Model ----
(***************************************************************************)
(* Model of the cesium-draw editing core: FeatureStore, the spatial hash   *)
(* index that subscribes to it, the SnappingEngine, the CommandStack and   *)
(* the drag transactions of FeatureEditTool.                               *)
(*                                                                         *)
(* World positions are points of a flat integer plane; the viewer's        *)
(* projection is the identity (one world unit is one screen pixel), so a   *)
(* picked cursor position is at once the screen position and the world     *)
(* candidate.  Two more position values exist, because the code produces   *)
(* them: Origin, what Cesium.Cartesian3.clone gives for an object without  *)
(* x/y/z, and NaNPos, what Cartesian3 arithmetic gives for such an object. *)
(* Screen distances are fixed-point numbers, SubPx units to the pixel.     *)
(* Indices are 0-based as in the code; position k of a feature is pos[k+1].*)
(***************************************************************************)
EXTENDS Integers, Sequences, FiniteSets, TLC

VARIABLES store, index, indexPoly, entity, done, undone, edit, snapped, ghost, draw

vars == <<store, index, indexPoly, entity, done, undone, edit, snapped, ghost, draw>>

-----------------------------------------------------------------------------
(* Bounds of the model *)

\* commands the stack may hold (undo list plus redo list)
MaxCmds == 2
\* pointer-downs that begin a drag, where commits, undo and redo follow
MaxDrags == 1
\* features on the map at once, where commits, undo and redo follow
MaxFeatures == 1
\* commands the stack may hold where vertices are inserted and deleted
MaxVertexCmds == 3

-----------------------------------------------------------------------------
(* Program constants *)

\* FeatureEditTool.snapThresholdPx / SnappingEngine.thresholdPx
ThresholdPx == 12
\* FeatureEditTool passes { cellSizeMeters: 50 }
CellSize == 50
\* fixed-point resolution of a screen distance: SubPx units are one pixel
SubPx == 4
\* the sub-pixel tolerance 0.75 px of the resolution step, in 1/SubPx pixels
NearTol == 3
\* defaultSnapPriority()
PrioVertex == 100
PrioMidpoint == 80
PrioEdge == 60
PrioGrid == 40
\* metersPerPixelAt: world units per pixel under the identity projection
MetersPerPixel == 1

-----------------------------------------------------------------------------
(* Positions *)

Pt(x, y) == [t |-> "pt", x |-> x, y |-> y]
\* Cartesian3.clone(o) for an object o with no x, y, z: new Cartesian3(undefined, ...) = (0,0,0),
\* the centre of the ellipsoid
Origin == [t |-> "origin", x |-> 0, y |-> 0]
\* Cartesian3.subtract/add with an operand whose x, y, z are undefined
NaNPos == [t |-> "nan", x |-> 0, y |-> 0]
\* null / undefined where the code holds a position
NullPos == [t |-> "null", x |-> 0, y |-> 0]

IsReal(p) == p.t = "pt"

Abs(n) == IF n < 0 THEN -n ELSE n
Min2(a, b) == IF a <= b THEN a ELSE b
Max2(a, b) == IF a >= b THEN a ELSE b

\* Cartesian3.add / subtract; any undefined or NaN component makes the result NaN,
\* and the centre of the ellipsoid is the zero vector
Coord(p) == IF p.t = "origin" THEN Pt(0, 0) ELSE p
PosAdd(a, b) ==
  IF a.t \in {"nan", "null"} \/ b.t \in {"nan", "null"} THEN NaNPos
  ELSE Pt(Coord(a).x + Coord(b).x, Coord(a).y + Coord(b).y)
PosSub(a, b) ==
  IF a.t \in {"nan", "null"} \/ b.t \in {"nan", "null"} THEN NaNPos
  ELSE Pt(Coord(a).x - Coord(b).x, Coord(a).y - Coord(b).y)

\* Cesium.Cartesian3.clone(p)
clonePosition(p) == p
\* clonePositions(positions)
clonePositions(ps) == [i \in 1..Len(ps) |-> clonePosition(ps[i])]

\* Cesium.Cartesian3.midpoint(a, b): coordinates are even in this model, so exact
Midpoint(a, b) ==
  IF IsReal(a) /\ IsReal(b) THEN Pt((a.x + b.x) \div 2, (a.y + b.y) \div 2)
  ELSE IF a.t = "nan" \/ b.t = "nan" THEN NaNPos
  ELSE Pt(Coord(a).x \div 2 + Coord(b).x \div 2, Coord(a).y \div 2 + Coord(b).y \div 2)

\* squared world distance between two real positions
Dist2(a, b) == (a.x - b.x) * (a.x - b.x) + (a.y - b.y) * (a.y - b.y)

\* floor of the square root
ISqrt(n) == CHOOSE r \in 0..(n + 1) : r * r <= n /\ (r + 1) * (r + 1) > n

\* Math.hypot(dx, dy) as a fixed-point screen distance (1/SubPx pixels); only called for
\* distances of at most a few thresholds
Hypot(dx, dy) ==
  LET n == SubPx * SubPx * (dx * dx + dy * dy)
  IN CHOOSE r \in 0..(SubPx * (Abs(dx) + Abs(dy)) + 1) : r * r <= n /\ (r + 1) * (r + 1) > n

-----------------------------------------------------------------------------
(* Features *)

Ids == {"P", "L", "T"}
NoId == "none"

NoFeature == [id |-> NoId, kind |-> "none", pos |-> <<>>]

Feature(id, kind, pos) == [id |-> id, kind |-> kind, pos |-> pos]

\* snapshotFeature(f): a deep clone; the clone is structurally the feature
snapshotFeature(f) == [f EXCEPT !.pos = clonePositions(f.pos)]

SquareP == <<Pt(0, 0), Pt(20, 0), Pt(20, 20), Pt(0, 20)>>
LineL == <<Pt(60, 0), Pt(60, 20), Pt(80, 20)>>
PointT == <<Pt(36, -12)>>

\* the features the draw tools and the import add to the store
Catalogue ==
  { Feature("P", "polygon", SquareP),
    Feature("L", "polyline", LineL),
    Feature("T", "point", PointT) }

-----------------------------------------------------------------------------
(* FeatureSpatialIndex, the version that indexes every kind *)

\* vcells / ecells: the entries in the cells (an entry's cell is that of its position, or
\* of its midpoint); vby / eby: verticesByFeature / edgesByFeature; order: the feature
\* ids in the order their entries were pushed into the cell lists
EmptyIndex ==
  [ vcells |-> {}, ecells |-> {},
    vby |-> [i \in Ids |-> {}], eby |-> [i \in Ids |-> {}],
    order |-> <<>> ]

WithoutId(seq, id) == SelectSeq(seq, LAMBDA i : i # id)

\* toCell: the cell of a position; the centre of the ellipsoid and NaN hash to cells
\* no query around a surface position enumerates
CellOf(p, cs) ==
  IF IsReal(p) THEN [far |-> FALSE, cx |-> p.x \div cs, cy |-> p.y \div cs]
  ELSE [far |-> TRUE, cx |-> 0, cy |-> 0]

IndexedVertex(id, i, p) == [featureId |-> id, vertexIndex |-> i, position |-> p]
IndexedEdge(id, i, a, b) == [featureId |-> id, edgeStartIndex |-> i, a |-> a, b |-> b]

\* getPositions(feature)
getPositions(f) == f.pos

\* a remove that forgets the cells: only the per-feature lists are deleted
IndexRemoveKeepsCells(ix, id) ==
  [ix EXCEPT !.vby[id] = {}, !.eby[id] = {}]

\* FeatureSpatialIndex.remove(featureId): the entries recorded for the id leave their cells
IndexRemove(ix, id) ==
  [ vcells |-> ix.vcells \ ix.vby[id],
    ecells |-> ix.ecells \ ix.eby[id],
    vby |-> [ix.vby EXCEPT ![id] = {}],
    eby |-> [ix.eby EXCEPT ![id] = {}],
    order |-> IF ix.vby[id] = {} /\ ix.eby[id] = {} THEN ix.order ELSE WithoutId(ix.order, id) ]

VerticesOf(f) ==
  { IndexedVertex(f.id, i - 1, f.pos[i]) : i \in 1..Len(f.pos) }

\* edges that close a polyline like a ring
EdgesOfClosedPolyline(f) ==
  LET n == Len(f.pos)
  IN IF f.kind \in {"polyline", "polygon"}
       THEN { IndexedEdge(f.id, i - 1, f.pos[i], f.pos[(i % n) + 1]) : i \in 1..n }
     ELSE {}

\* the edges FeatureSpatialIndex.upsert makes of a feature
EdgesOf(f) ==
  LET n == Len(f.pos)
  IN IF f.kind = "polyline"
       THEN { IndexedEdge(f.id, i - 1, f.pos[i], f.pos[i + 1]) : i \in 1..(n - 1) }
     ELSE IF f.kind = "polygon"
       THEN { IndexedEdge(f.id, i - 1, f.pos[i], f.pos[(i % n) + 1]) : i \in 1..n }
     ELSE {}

\* FeatureSpatialIndex.upsert(feature)
IndexUpsert(ix, f) ==
  LET r == IndexRemove(ix, f.id)
      vs == VerticesOf([f EXCEPT !.pos = getPositions(f)])
      es == EdgesOf(f)
  IN [ vcells |-> r.vcells \cup vs,
       ecells |-> r.ecells \cup es,
       vby |-> [r.vby EXCEPT ![f.id] = vs],
       eby |-> [r.eby EXCEPT ![f.id] = es],
       order |-> IF vs = {} /\ es = {} THEN r.order ELSE Append(WithoutId(r.order, f.id), f.id) ]

\* FeatureSpatialIndex.clear()
IndexClear(ix) == EmptyIndex

\* position of a feature's entries in the cell lists
OrderPos(ix, id) ==
  IF \E k \in 1..Len(ix.order) : ix.order[k] = id
    THEN CHOOSE k \in 1..Len(ix.order) : ix.order[k] = id
  ELSE 0

Range(seq) == { seq[k] : k \in 1..Len(seq) }

LexLess(a, b) ==
  \E k \in 1..Len(a) : a[k] < b[k] /\ \A j \in 1..(k - 1) : a[j] = b[j]

\* the array an iteration builds from entries whose keys tell their order
SortSet(S, key) ==
  [ k \in 1..Cardinality(S) |->
      CHOOSE e \in S :
        LET before == Cardinality({ q \in S : LexLess(key[q], key[e]) })
        IN before <= k - 1 /\ k - 1 < before + Cardinality({ q \in S : key[q] = key[e] }) ]

\* FeatureSpatialIndex.query(worldPos, radiusMeters): r = max(0.1, radius); the cells
\* within ceil(r / cs) + 1 of the cell of worldPos; vertices within r, edges whose
\* midpoint is within 1.5 r.  Distances are compared squared, in tenths.
CeilDiv(a, b) == (a + b - 1) \div b

\* a query that looks into the cell of worldPos alone
IndexQueryOwnCell(ix, p, radius) ==
  LET r10 == Max2(1, 10 * radius)
      c == CellOf(p, CellSize)
      range == 0
      InRange(q) ==
        LET k == CellOf(q, CellSize)
        IN /\ ~k.far /\ ~c.far
           /\ Abs(k.cx - c.cx) <= range /\ Abs(k.cy - c.cy) <= range
      Near(q, num, den) ==
        \* |q - p| <= r * num / den
        IsReal(q) /\ IsReal(p) /\ 100 * den * den * Dist2(q, p) <= num * num * r10 * r10
      \* the cells are visited by ascending x, then y, and a cell lists its entries in
      \* the order they were pushed: feature by feature, by vertex or edge index
      VKey(v) == LET k == CellOf(v.position, CellSize)
                 IN <<k.cx, k.cy, OrderPos(ix, v.featureId), v.vertexIndex>>
      EKey(e) == LET k == CellOf(Midpoint(e.a, e.b), CellSize)
                 IN <<k.cx, k.cy, OrderPos(ix, e.featureId), e.edgeStartIndex>>
      vs == { v \in ix.vcells : InRange(v.position) /\ Near(v.position, 1, 1) }
      es == { e \in ix.ecells : LET m == Midpoint(e.a, e.b) IN InRange(m) /\ Near(m, 3, 2) }
  IN [ vertices |-> SortSet(vs, [v \in vs |-> VKey(v)]),
       edges |-> SortSet(es, [e \in es |-> EKey(e)]) ]

\* FeatureSpatialIndex.query(worldPos, radiusMeters) of the index of all kinds
IndexQuery(ix, p, radius) ==
  LET r10 == Max2(1, 10 * radius)
      c == CellOf(p, CellSize)
      range == CeilDiv(r10, 10 * CellSize) + 1
      InRange(q) ==
        LET k == CellOf(q, CellSize)
        IN /\ ~k.far /\ ~c.far
           /\ Abs(k.cx - c.cx) <= range /\ Abs(k.cy - c.cy) <= range
      Near(q, num, den) ==
        \* |q - p| <= r * num / den
        IsReal(q) /\ IsReal(p) /\ 100 * den * den * Dist2(q, p) <= num * num * r10 * r10
      \* the cells are visited by ascending x, then y, and a cell lists its entries in
      \* the order they were pushed: feature by feature, by vertex or edge index
      VKey(v) == LET k == CellOf(v.position, CellSize)
                 IN <<k.cx, k.cy, OrderPos(ix, v.featureId), v.vertexIndex>>
      EKey(e) == LET k == CellOf(Midpoint(e.a, e.b), CellSize)
                 IN <<k.cx, k.cy, OrderPos(ix, e.featureId), e.edgeStartIndex>>
      vs == { v \in ix.vcells : InRange(v.position) /\ Near(v.position, 1, 1) }
      es == { e \in ix.ecells : LET m == Midpoint(e.a, e.b) IN InRange(m) /\ Near(m, 3, 2) }
  IN [ vertices |-> SortSet(vs, [v \in vs |-> VKey(v)]),
       edges |-> SortSet(es, [e \in es |-> EKey(e)]) ]

-----------------------------------------------------------------------------
(* FeatureSpatialIndex, the earlier version that indexes polygons only *)

\* upsert(feature: PolygonFeature): nothing is indexed for fewer than two positions
PolyIndexUpsert(ix, f) ==
  LET r == IndexRemove(ix, f.id)
      n == Len(f.pos)
      vs == VerticesOf(f)
      es == { IndexedEdge(f.id, i - 1, f.pos[i], f.pos[(i % n) + 1]) : i \in 1..n }
  IN IF n < 2 THEN r
     ELSE [ vcells |-> r.vcells \cup vs,
            ecells |-> r.ecells \cup es,
            vby |-> [r.vby EXCEPT ![f.id] = vs],
            eby |-> [r.eby EXCEPT ![f.id] = es],
            order |-> Append(WithoutId(r.order, f.id), f.id) ]

\* the store subscription of the constructor: an upsert event is taken for polygons only
PolyIndexOnEvent(ix, evt) ==
  IF evt.type = "upsert"
    THEN IF evt.feature.kind = "polygon" THEN PolyIndexUpsert(ix, evt.feature) ELSE ix
  ELSE IF evt.type = "remove" THEN IndexRemove(ix, evt.id)
  ELSE IndexClear(ix)

\* query(worldPos, radiusMeters): the cells the box [p - r, p + r] meets; vertices within
\* r; edges with an endpoint within 2 r
PolyIndexQuery(ix, p, radius) ==
  LET r == Max2(0, radius)
      InBox(q) ==
        /\ IsReal(q) /\ IsReal(p)
        /\ (p.x - r) \div CellSize <= q.x \div CellSize
        /\ q.x \div CellSize <= (p.x + r) \div CellSize
        /\ (p.y - r) \div CellSize <= q.y \div CellSize
        /\ q.y \div CellSize <= (p.y + r) \div CellSize
      Within(q, k) == IsReal(q) /\ IsReal(p) /\ Dist2(q, p) <= k * k * r * r
  IN [ vertices |-> { v \in ix.vcells : InBox(v.position) /\ Within(v.position, 1) },
       edges |-> { e \in ix.ecells :
                     InBox(Midpoint(e.a, e.b)) /\ (Within(e.a, 2) \/ Within(e.b, 2)) } ]

\* the store subscription of the all-kinds index
IndexOnEvent(ix, evt) ==
  IF evt.type = "upsert" THEN IndexUpsert(ix, evt.feature)
  ELSE IF evt.type = "remove" THEN IndexRemove(ix, evt.id)
  ELSE IndexClear(ix)

-----------------------------------------------------------------------------
(* CesiumFeatureLayer: one entity per feature of the store *)

\* shown: the graphics of the entity of each feature id (entityByFeature); order: the
\* ids in the order of ds.entities.values
EmptyLayer == [shown |-> [i \in Ids |-> NoFeature], order |-> <<>>]

\* applyUpsert / applyRemove / removeAll: the entity shows the feature's kind and
\* positions; an entity is added to the collection when its id has none
LayerOnEvent(en, evt) ==
  IF evt.type = "upsert"
    THEN [ shown |-> [en.shown EXCEPT ![evt.feature.id] = evt.feature],
           order |-> IF en.shown[evt.feature.id] = NoFeature
                       THEN Append(en.order, evt.feature.id) ELSE en.order ]
  ELSE IF evt.type = "remove"
    THEN [ shown |-> [en.shown EXCEPT ![evt.id] = NoFeature],
           order |-> WithoutId(en.order, evt.id) ]
  ELSE EmptyLayer

\* entity.id: applyUpsert adds new Cesium.Entity(), whose id is a GUID of its own and not
\* the feature id
EntityId == [P |-> "entity-P", L |-> "entity-L", T |-> "entity-T"]

\* CesiumFeatureLayer.getEntity(id)
getEntity(en, id) == IF id \in Ids THEN en.shown[id] ELSE NoFeature

-----------------------------------------------------------------------------
(* FeatureEditTool: state and the helpers the store listener needs *)

NoIndex == 0 - 1

InitEdit ==
  [ selectedId |-> NoId,
    selectedKind |-> "none",
    handles |-> <<>>,
    activeHandleIndex |-> NoIndex,
    dragMode |-> "none",
    dragIndex |-> NoIndex,
    dragBeforePositions |-> <<>>,
    dragBeforePosition |-> NullPos,
    dragBeforeFeature |-> NoFeature,
    dragStartAnchor |-> NullPos,
    dragPreviewPositions |-> <<>>,
    dragPreviewPosition |-> NullPos,
    snapEnabled |-> TRUE,
    snapTypes |-> [vertex |-> TRUE, midpoint |-> TRUE, edge |-> TRUE, grid |-> FALSE],
    snapSources |-> [polygons |-> TRUE, grid |-> FALSE],
    cameraEnabled |-> TRUE ]

\* FeatureStore.getPoint / getPolyline / getPolygon: undefined unless the kind matches
getKind(st, id, kind) ==
  IF id \in Ids /\ st[id] # NoFeature /\ st[id].kind = kind THEN st[id] ELSE NoFeature

\* createHandle(pos, ownerId, index)
Handle(ownerId, i) == [ownerId |-> ownerId, index |-> i]

\* refreshHandles(): one handle per position of the selected feature, read from the store
refreshHandles(e, st) ==
  IF e.selectedId = NoId \/ e.selectedKind = "none" THEN [e EXCEPT !.handles = <<>>]
  ELSE LET feat == getKind(st, e.selectedId, e.selectedKind)
       IN IF feat = NoFeature THEN [e EXCEPT !.handles = <<>>]
          ELSE [e EXCEPT !.handles = [i \in 1..Len(feat.pos) |-> Handle(e.selectedId, i - 1)]]

\* deselect(): selection, active handle and handles are cleared; the drag fields are not
deselect(e) ==
  [e EXCEPT !.selectedId = NoId, !.selectedKind = "none",
            !.activeHandleIndex = NoIndex, !.handles = <<>>]

\* the store.onChange listener of the constructor
ToolOnStoreEvent(e, st, evt) ==
  IF e.selectedId = NoId THEN e
  ELSE IF evt.type = "upsert"
    THEN IF evt.feature.id = e.selectedId THEN refreshHandles(e, st) ELSE e
  ELSE IF evt.type = "remove"
    THEN IF evt.id = e.selectedId THEN deselect(e) ELSE e
  ELSE deselect(e)

-----------------------------------------------------------------------------
(* FeatureStore.  W is the store with its subscribers: both indexes, the layer and the *)
(* edit tool; a call that emits runs every listener before it returns.                 *)

World == [store |-> store, index |-> index, indexPoly |-> indexPoly,
          entity |-> entity, edit |-> edit]

Event(type, f, id) == [type |-> type, feature |-> f, id |-> id]

\* emit(evt): for (const fn of this.listeners) fn(evt)
Emit(W, evt) ==
  [ store |-> W.store,
    index |-> IndexOnEvent(W.index, evt),
    indexPoly |-> PolyIndexOnEvent(W.indexPoly, evt),
    entity |-> LayerOnEvent(W.entity, evt),
    edit |-> ToolOnStoreEvent(W.edit, W.store, evt) ]

\* upsert(feature, opts)
StoreUpsert(W, f, silent) ==
  LET W1 == [W EXCEPT !.store[f.id] = f]
  IN IF silent THEN W1 ELSE Emit(W1, Event("upsert", f, f.id))

\* remove(id, opts): nothing happens, and nothing is emitted, for an id not in the map
StoreRemove(W, id, silent) ==
  IF W.store[id] = NoFeature THEN W
  ELSE LET W1 == [W EXCEPT !.store[id] = NoFeature]
       IN IF silent THEN W1 ELSE Emit(W1, Event("remove", NoFeature, id))

\* clear(opts)
StoreClear(W, silent) ==
  LET W1 == [W EXCEPT !.store = [i \in Ids |-> NoFeature]]
  IN IF silent THEN W1 ELSE Emit(W1, Event("clear", NoFeature, NoId))

StoreIds(st) == { i \in Ids : st[i] # NoFeature }

\* the variables take the value of W, which is worked out once
SetWorldVars(W) ==
  \E w \in {W} :
    /\ store' = w.store
    /\ index' = w.index
    /\ indexPoly' = w.indexPoly
    /\ entity' = w.entity
    /\ edit' = w.edit

\* the world after a step that leaves the draw tools and the camera lock alone
SetWorld(W) == SetWorldVars(W) /\ draw' = draw

-----------------------------------------------------------------------------
(* Geometry validation *)

\* validatePointPosition(position): an error unless x, y, z are finite
validatePointPosition(p) ==
  IF p.t = "null" THEN "invalid" ELSE IF p.t = "nan" THEN "nonfinite" ELSE "ok"

\* Cartesian3.equalsEpsilon(a, b, 1e-9) and almostEq on both coordinates: never true of
\* NaN; a surface position is never the centre of the ellipsoid
PosEq(a, b) ==
  /\ a.t \in {"pt", "origin"} /\ a.t = b.t
  /\ a.x = b.x /\ a.y = b.y

\* validatePolylinePositions(positions)
validatePolylinePositions(ps) ==
  IF Len(ps) < 2 THEN "TOO_FEW_POINTS"
  ELSE IF \E i \in 2..Len(ps) : PosEq(ps[i - 1], ps[i]) THEN "DUPLICATE_VERTEX"
  ELSE "ok"

\* orient(p, q, r) of segIntersect; NaN when a coordinate is NaN
Orient(p, q, r) ==
  [ nan |-> ~(IsReal(p) /\ IsReal(q) /\ IsReal(r)),
    v |-> (q.x - p.x) * (r.y - p.y) - (q.y - p.y) * (r.x - p.x) ]
Positive(o) == ~o.nan /\ o.v > 0
IsZero(o) == ~o.nan /\ o.v = 0

\* onSeg(p, q, r): r lies in the bounding box of p and q
OnSeg(p, q, r) ==
  /\ IsReal(p) /\ IsReal(q) /\ IsReal(r)
  /\ Min2(p.x, q.x) <= r.x /\ r.x <= Max2(p.x, q.x)
  /\ Min2(p.y, q.y) <= r.y /\ r.y <= Max2(p.y, q.y)

\* segIntersect(a, b, c, d)
segIntersect(a, b, c, d) ==
  LET o1 == Orient(a, b, c)
      o2 == Orient(a, b, d)
      o3 == Orient(c, d, a)
      o4 == Orient(c, d, b)
  IN \/ (Positive(o1) # Positive(o2)) /\ (Positive(o3) # Positive(o4))
     \/ IsZero(o1) /\ OnSeg(a, b, c)
     \/ IsZero(o2) /\ OnSeg(a, b, d)
     \/ IsZero(o3) /\ OnSeg(c, d, a)
     \/ IsZero(o4) /\ OnSeg(c, d, b)

\* validatePolygonPositions(positions): "throw" is the TypeError of toLonLat, which reads
\* .longitude of the undefined that Cartographic.fromCartesian returns at the centre of
\* the ellipsoid, or the DeveloperError of Cartesian3.normalize for a NaN position where
\* the Cesium build in use keeps its debug checks; otherwise the code of issues[0], or "ok"
validatePolygonPositions(ps, checks) ==
  LET n == Len(ps)
      at(i) == ps[i + 1]
      dup == \E i \in 0..(n - 1) : PosEq(at(i), at((i + 1) % n))
      cross ==
        \E i \in 0..(n - 1) : \E j \in (i + 1)..(n - 1) :
          /\ (j + 1) % n # i
          /\ (i + 1) % n # j
          /\ segIntersect(at(i), at((i + 1) % n), at(j), at((j + 1) % n))
  IN IF n < 3 THEN "TOO_FEW_POINTS"
     ELSE IF \E i \in 1..n : ps[i].t \in {"origin", "null"} THEN "throw"
     ELSE IF checks /\ \E i \in 1..n : ps[i].t = "nan" THEN "throw"
     ELSE IF dup THEN "DUPLICATE_VERTEX"
     ELSE IF cross THEN "SELF_INTERSECTION"
     ELSE "ok"

-----------------------------------------------------------------------------
(* Feature commands and the CommandStack *)

\* a command: its class and its fields. items: the features a batch command was given;
\* saved: the snapshots a batch command took in do() (removed, before, beforeById), a
\* feature of kind "none" standing for the null beforeById holds for an id not in the store
Cmd(type, id, before, after) ==
  [type |-> type, id |-> id, before |-> before, after |-> after, items |-> <<>>, saved |-> <<>>]

\* new AddFeatureCommand(store, feature)
AddFeatureCommand(f) == Cmd("AddFeature", f.id, NoFeature, f)
\* new UpdateFeatureCommand(store, id, before, after)
UpdateFeatureCommand(id, before, after) == Cmd("UpdateFeature", id, before, after)
\* new RemoveFeatureCommand(store, id); before is its field snap, null until do() ran
RemoveFeatureCommand(id) == Cmd("RemoveFeature", id, NoFeature, NoFeature)

\* new ClearAllFeaturesCommand(store)
ClearAllFeaturesCommand == Cmd("ClearAllFeatures", NoId, NoFeature, NoFeature)
\* new ReplaceAllFeaturesCommand(store, features): this.after = features.map(snapshotFeature)
ReplaceAllFeaturesCommand(features) ==
  [Cmd("ReplaceAllFeatures", NoId, NoFeature, NoFeature) EXCEPT
     !.items = [k \in 1..Len(features) |-> snapshotFeature(features[k])]]
\* new UpsertManyFeaturesCommand(store, features): this.items = features.map(snapshotFeature)
UpsertManyFeaturesCommand(features) ==
  [Cmd("UpsertManyFeatures", NoId, NoFeature, NoFeature) EXCEPT
     !.items = [k \in 1..Len(features) |-> snapshotFeature(features[k])]]

\* store.all().map(snapshotFeature): the values of the map. The map keeps them in
\* insertion order, the model in the order P, L, T: the ids are distinct, so the
\* content of the store after upserting them all is the same in any order
IdOrder == <<"P", "L", "T">>
allSnapshots(st) ==
  LET vals == [k \in 1..Len(IdOrder) |-> snapshotFeature(st[IdOrder[k]])]
  IN SelectSeq(vals, LAMBDA f : f # NoFeature)

\* for (const f of fs) this.store.upsert(f)
RECURSIVE UpsertAll(_, _)
UpsertAll(W, fs) ==
  IF fs = <<>> THEN W ELSE UpsertAll(StoreUpsert(W, Head(fs), FALSE), Tail(fs))

\* UpsertManyFeaturesCommand.do(): an id not yet in beforeById gets its entry, the
\* snapshot of what the store holds or null; every item is upserted
RECURSIVE DoUpsertMany(_, _, _)
DoUpsertMany(W, saved, fs) ==
  IF fs = <<>> THEN [W |-> W, saved |-> saved]
  ELSE LET f == Head(fs)
           existed == W.store[f.id]
           has == \E k \in 1..Len(saved) : saved[k].id = f.id
           entry == IF existed # NoFeature THEN snapshotFeature(existed)
                    ELSE Feature(f.id, "none", <<>>)
       IN DoUpsertMany(StoreUpsert(W, f, FALSE),
                       IF has THEN saved ELSE Append(saved, entry), Tail(fs))

\* an undo of UpsertManyFeaturesCommand that restores what was replaced and leaves in
\* the store what was new
RECURSIVE UndoUpsertManyKeepsNew(_, _)
UndoUpsertManyKeepsNew(W, saved) ==
  IF saved = <<>> THEN W
  ELSE LET before == saved[Len(saved)]
       IN UndoUpsertManyKeepsNew(IF before.kind # "none" THEN StoreUpsert(W, before, FALSE) ELSE W,
                                 SubSeq(saved, 1, Len(saved) - 1))

\* UpsertManyFeaturesCommand.undo(): the keys of beforeById in reverse; the snapshot is
\* upserted, an id with null is removed
RECURSIVE UndoUpsertMany(_, _)
UndoUpsertMany(W, saved) ==
  IF saved = <<>> THEN W
  ELSE LET before == saved[Len(saved)]
       IN UndoUpsertMany(IF before.kind # "none" THEN StoreUpsert(W, before, FALSE)
                         ELSE StoreRemove(W, before.id, FALSE),
                         SubSeq(saved, 1, Len(saved) - 1))

\* cmd.do(): the world after it, and the command with what its do() recorded
\* (RemoveFeatureCommand snap, ClearAll removed, ReplaceAll before, UpsertMany beforeById)
CmdDo(W, c) ==
  IF c.type = "RemoveFeature"
    THEN IF W.store[c.id] = NoFeature THEN [W |-> W, cmd |-> c]
         ELSE [ W |-> StoreRemove(W, c.id, FALSE),
                cmd |-> [c EXCEPT !.before = snapshotFeature(W.store[c.id])] ]
  ELSE IF c.type = "ClearAllFeatures"
    THEN [ W |-> StoreClear(W, FALSE), cmd |-> [c EXCEPT !.saved = allSnapshots(W.store)] ]
  ELSE IF c.type = "ReplaceAllFeatures"
    THEN [ W |-> UpsertAll(StoreClear(W, FALSE), c.items),
           cmd |-> [c EXCEPT !.saved = allSnapshots(W.store)] ]
  ELSE IF c.type = "UpsertManyFeatures"
    THEN LET r == DoUpsertMany(W, c.saved, c.items)
         IN [ W |-> r.W, cmd |-> [c EXCEPT !.saved = r.saved] ]
  ELSE [W |-> StoreUpsert(W, c.after, FALSE), cmd |-> c]

\* an undo that writes nothing back
CmdUndoWritesNothing(W, c) == W

\* cmd.undo()
CmdUndo(W, c) ==
  IF c.type = "AddFeature" THEN StoreRemove(W, c.after.id, FALSE)
  ELSE IF c.type = "UpdateFeature" THEN StoreUpsert(W, c.before, FALSE)
  ELSE IF c.type = "ClearAllFeatures" THEN UpsertAll(W, c.saved)
  ELSE IF c.type = "ReplaceAllFeatures" THEN UpsertAll(StoreClear(W, FALSE), c.saved)
  ELSE IF c.type = "UpsertManyFeatures" THEN UndoUpsertMany(W, c.saved)
  ELSE IF c.before = NoFeature THEN W
  ELSE StoreUpsert(W, c.before, FALSE)

\* the stack with the world its commands act on
Machine(W, dn, un) == [W |-> W, done |-> dn, undone |-> un]

\* a push that runs the command and does not record it
StackPushUnrecorded(M, c) ==
  LET r == CmdDo(M.W, c)
  IN Machine(r.W, M.done, <<>>)

\* a push that leaves the redo list as it is
StackPushKeepsRedo(M, c) ==
  LET r == CmdDo(M.W, c)
  IN Machine(r.W, Append(M.done, r.cmd), M.undone)

\* CommandStack.push(cmd)
StackPush(M, c) ==
  LET r == CmdDo(M.W, c)
  IN Machine(r.W, Append(M.done, r.cmd), <<>>)

Last(seq) == seq[Len(seq)]
Front(seq) == SubSeq(seq, 1, Len(seq) - 1)

\* an undo that does not keep the command for redo
StackUndoForgets(M) ==
  IF M.done = <<>> THEN M
  ELSE Machine(CmdUndo(M.W, Last(M.done)), Front(M.done), M.undone)

\* CommandStack.undo()
StackUndo(M) ==
  IF M.done = <<>> THEN M
  ELSE Machine(CmdUndo(M.W, Last(M.done)), Front(M.done), Append(M.undone, Last(M.done)))

\* CommandStack.redo()
StackRedo(M) ==
  IF M.undone = <<>> THEN M
  ELSE LET r == CmdDo(M.W, Last(M.undone))
       IN Machine(r.W, Append(M.done, r.cmd), Front(M.undone))

SetMachine(M) ==
  \E m \in {M} :
    /\ SetWorld(m.W)
    /\ done' = m.done
    /\ undone' = m.undone

-----------------------------------------------------------------------------
(* SnappingEngine *)

\* a distance beyond the threshold, where its value is never read
Far == SubPx * ThresholdPx + 1

\* d <= thresholdPx for d = Math.hypot(dx, dy), compared exactly
InThreshold(dx, dy) == dx * dx + dy * dy <= ThresholdPx * ThresholdPx

\* scene.cartesianToCanvasCoordinates(p), then Math.hypot to the cursor: the projection is
\* the identity; the centre of the ellipsoid and NaN project nowhere near a cursor
ScreenDist(p, c) ==
  IF IsReal(p) /\ IsReal(c) /\ InThreshold(p.x - c.x, p.y - c.y)
    THEN Hypot(p.x - c.x, p.y - c.y)
  ELSE Far

\* distancePointToSegment2D(p, a, b).dist
distancePointToSegment2D(p, a, b) ==
  IF ~(IsReal(p) /\ IsReal(a) /\ IsReal(b)) THEN Far
  ELSE
    LET vx == b.x - a.x
        vy == b.y - a.y
        wx == p.x - a.x
        wy == p.y - a.y
        c1 == vx * wx + vy * wy
        c2 == vx * vx + vy * vy
        cross == vx * wy - vy * wx
    IN IF c1 <= 0 THEN ScreenDist(p, a)
       ELSE IF c2 <= c1 THEN ScreenDist(p, b)
       ELSE IF cross * cross > ThresholdPx * ThresholdPx * c2 THEN Far
       ELSE CHOOSE r \in 0..(SubPx * ThresholdPx) :
              /\ r * r * c2 <= SubPx * SubPx * cross * cross
              /\ (r + 1) * (r + 1) * c2 > SubPx * SubPx * cross * cross

\* closestPointOnSegment3D(p, a, b).point, to the whole unit
closestPointOnSegment3D(p, a, b) ==
  IF ~(IsReal(p) /\ IsReal(a) /\ IsReal(b)) THEN NaNPos
  ELSE
    LET abx == b.x - a.x
        aby == b.y - a.y
        ab2 == abx * abx + aby * aby
        dot == (p.x - a.x) * abx + (p.y - a.y) * aby
        num == Max2(0, Min2(ab2, dot))
    IN IF ab2 = 0 THEN a
       ELSE Pt(a.x + (num * abx) \div ab2, a.y + (num * aby) \div ab2)

\* SnapCandidate: type, position, distancePx, priority, meta.ownerId, and in index
\* meta.vertexIndex or meta.edgeStartIndex
Candidate(type, position, d, priority, ownerId, i) ==
  [ type |-> type, position |-> position, distancePx |-> d, priority |-> priority,
    ownerId |-> ownerId, index |-> i ]

\* snap() returning null
NoCandidate == Candidate("none", NullPos, Far, 0, NoId, NoIndex)

\* SnapQueryOptions; NoId and NoIndex are undefined
Query(excludeOwnerId, excludeIndex) ==
  [excludeOwnerId |-> excludeOwnerId, excludeIndex |-> excludeIndex]

Some(seq) == SelectSeq(seq, LAMBDA c : c.type # "none")

\* the vertex, midpoint and edge candidates pushed for positions a (index i) and b
VertexCandidate(id, i, a, cur) ==
  LET d == ScreenDist(a, cur)
  IN IF d = Far THEN NoCandidate
     ELSE Candidate("vertex", clonePosition(a), d, PrioVertex, id, i)
MidpointCandidate(id, i, a, b, cur) ==
  LET mid == Midpoint(a, b)
      d == ScreenDist(mid, cur)
  IN IF d = Far THEN NoCandidate
     ELSE Candidate("midpoint", mid, d, PrioMidpoint, id, i)
EdgeCandidate(id, i, a, b, cur) ==
  LET d == distancePointToSegment2D(cur, a, b)
  IN IF d = Far THEN NoCandidate
     ELSE Candidate("edge", closestPointOnSegment3D(cur, a, b), d, PrioEdge, id, i)

\* an exclusion that forgets the vertex being dragged
SkipsVertexOfWholeOwnerOnly(q, id, i) ==
  q.excludeOwnerId # NoId /\ id = q.excludeOwnerId /\ q.excludeIndex = NoIndex

\* an exclusion that forgets the edges
SkipsNoEdge(q, id) == FALSE

\* the index path: the vertex is skipped (continue) for the owner's whole feature when
\* excludeIndex is undefined, and else for the owner's vertex excludeIndex
SkipsVertex(q, id, i) ==
  /\ q.excludeOwnerId # NoId /\ id = q.excludeOwnerId
  /\ (q.excludeIndex = NoIndex \/ q.excludeIndex = i)

\* the index path: the edge, and its midpoint, is skipped for the owner when excludeIndex
\* is undefined
SkipsEdge(q, id) ==
  q.excludeOwnerId # NoId /\ id = q.excludeOwnerId /\ q.excludeIndex = NoIndex

\* snap(), the index path: the index is queried around the world candidate, distances
\* are taken to the cursor; the candidates in the order they are pushed
IndexCandidatesAround(ix, world, cur, q) ==
  LET res == IndexQuery(ix, world, ThresholdPx * MetersPerPixel)
      vc(v) ==
        IF SkipsVertex(q, v.featureId, v.vertexIndex) THEN NoCandidate
        ELSE VertexCandidate(v.featureId, v.vertexIndex, v.position, cur)
      ec(e, mid) ==
        IF SkipsEdge(q, e.featureId) THEN NoCandidate
        ELSE IF mid THEN MidpointCandidate(e.featureId, e.edgeStartIndex, e.a, e.b, cur)
        ELSE EdgeCandidate(e.featureId, e.edgeStartIndex, e.a, e.b, cur)
  IN Some([k \in 1..Len(res.vertices) |-> vc(res.vertices[k])])
     \o Some([k \in 1..(2 * Len(res.edges)) |->
                ec(res.edges[(k + 1) \div 2], k % 2 = 1)])

\* the same where the world candidate is the position under the cursor
IndexCandidates(ix, cur, q) == IndexCandidatesAround(ix, cur, cur, q)

\* snap(), the fallback of an engine without index: the rendered polygons are scanned,
\* and each position pushes its vertex, then the midpoint and the edge that start at it
EntityCandidates(en, cur, q) ==
  LET polys == SelectSeq(en.order, LAMBDA fid : en.shown[fid].kind = "polygon"
                                                 /\ Len(en.shown[fid].pos) > 0)
      own(id) == q.excludeOwnerId # NoId /\ id = q.excludeOwnerId
      per(fid) ==
        LET id == EntityId[fid]
            ps == en.shown[fid].pos
            n == Len(ps)
            one(k) ==
              LET i == (k - 1) \div 3
                  a == ps[i + 1]
                  b == ps[((i + 1) % n) + 1]
              IN IF (k - 1) % 3 = 0
                   THEN IF own(id) /\ (q.excludeIndex = i \/ q.excludeIndex = NoIndex)
                          THEN NoCandidate
                        ELSE VertexCandidate(id, i, a, cur)
                 ELSE IF own(id) /\ q.excludeIndex = NoIndex THEN NoCandidate
                 ELSE IF (k - 1) % 3 = 1 THEN MidpointCandidate(id, i, a, b, cur)
                 ELSE EdgeCandidate(id, i, a, b, cur)
        IN Some([k \in 1..(3 * n) |-> one(k)])
      all[k \in 0..Len(polys)] == IF k = 0 THEN <<>> ELSE all[k - 1] \o per(polys[k])
  IN all[Len(polys)]

\* Array.prototype.sort(cmp), which is stable: where x goes when before(x, y) is cmp < 0
StableSort(seq, before) ==
  LET n == Len(seq)
      rank(i) == Cardinality({ j \in 1..n :
                   \/ before[<<seq[j], seq[i]>>]
                   \/ ~before[<<seq[i], seq[j]>>] /\ j < i })
  IN [k \in 1..n |-> seq[CHOOSE i \in 1..n : rank(i) = k - 1]]

\* a choice that takes the first of the sort by distance and never looks at the others
ResolveNearestOnly(candidates) ==
  IF candidates = <<>> THEN NoCandidate
  ELSE
    LET C == Range(candidates)
        byDist == [pr \in C \X C |->
                     \/ pr[1].distancePx < pr[2].distancePx
                     \/ pr[1].distancePx = pr[2].distancePx /\ pr[1].priority > pr[2].priority]
    IN StableSort(candidates, byDist)[1]

\* a choice by priority alone, the nearest among those of the highest priority
ResolveByPriority(candidates) ==
  IF candidates = <<>> THEN NoCandidate
  ELSE
    LET C == Range(candidates)
        byPrio == [pr \in C \X C |->
                     \/ pr[1].priority > pr[2].priority
                     \/ pr[1].priority = pr[2].priority /\ pr[1].distancePx < pr[2].distancePx]
    IN StableSort(candidates, byPrio)[1]

\* the end of snap(): sort by distance, then priority; among those less than 0.75 px
\* from the best distance, the one a sort by priority puts first
Resolve(candidates) ==
  IF candidates = <<>> THEN NoCandidate
  ELSE
    LET C == Range(candidates)
        byDist == [pr \in C \X C |->
                     \/ pr[1].distancePx < pr[2].distancePx
                     \/ pr[1].distancePx = pr[2].distancePx /\ pr[1].priority > pr[2].priority]
        byPrio == [pr \in C \X C |-> pr[1].priority > pr[2].priority]
        sorted == StableSort(candidates, byDist)
        bestDist == sorted[1].distancePx
        near == SelectSeq(sorted, LAMBDA c : Abs(c.distancePx - bestDist) < NearTol)
    IN IF Len(near) > 1 THEN StableSort(near, byPrio)[1] ELSE near[1]

\* the last call of snap(): the engine's path, the cursor, the query options, the
\* candidates in the order they were pushed, and the candidate of the result
SnapCall(path, cur, q, candidates) ==
  [ path |-> path, cursor |-> cur, query |-> q,
    candidates |-> candidates, result |-> Resolve(candidates) ]

NoSnap == SnapCall("none", NullPos, Query(NoId, NoIndex), <<>>)

\* snap(worldCandidate, cursorScreenPos, query) of the engine that was given the index
snap(ix, cur, q) == SnapCall("index", cur, q, IndexCandidates(ix, cur, q))

\* snap(worldCandidate, cursorScreenPos, query) of an engine that was given none
snapFallback(en, cur, q) == SnapCall("fallback", cur, q, EntityCandidates(en, cur, q))

-----------------------------------------------------------------------------
(* The history the properties read; nothing of the program reads it *)

\* a drag gesture: pointer-down that begins a drag, pointer moves, pointer-up.  phase is
\* "open" from the begin while nothing but pointer moves has happened, then what the
\* pointer-up found ("commit" for a valid preview, "reject" for an invalid one), then
\* "undone" and "redone" for an undo and a redo that follow a commit at once; store, done
\* and undone are the store and the stack sizes at the begin, moves counts the pointer
\* moves up to two, snaps tells that a move called snap(), committed is the feature with
\* the last preview as its geometry.  A pointer-up during a drag that is no longer "open",
\* or that finds nothing to validate, leaves phase "ended", and one with no drag "idle".
\* phase "insert" and "delete" tell that the last event tried to insert or delete a
\* vertex of feature id, with the store and the stack sizes before it
NoDrag ==
  [ phase |-> "none", id |-> NoId, store |-> [i \in Ids |-> NoFeature],
    done |-> 0, undone |-> 0, moves |-> 0, snaps |-> FALSE, committed |-> NoFeature ]

InitGhost ==
  [ op |-> "init",          \* the operation of the last step, with its outcome
    id |-> NoId,            \* the feature id the last store call was made for
    arg |-> NoFeature,      \* the feature the last upsert was given
    silent |-> FALSE,       \* the last store call was made with { silent: true }
    had |-> FALSE,          \* the store held that id when the call was made
    silentCalls |-> FALSE,  \* some store call so far changed the map silently
    indexExcluded |-> FALSE,  \* an index-path snap has left out candidates of its owner
    drag |-> NoDrag,        \* the drag gesture in progress or just ended
    begun |-> 0,            \* the drags begun so far, up to MaxDrags
    said |-> "none" ]       \* what the last step told the user: "notice" through
                            \* opts.onNotice, "alert" through window.alert, or "none"

-----------------------------------------------------------------------------
(* InteractionLock, and the draw tools that acquire it *)

\* the flags of viewer.scene.screenSpaceCameraController the lock manages
Flags == {"enableRotate", "enableTranslate", "enableZoom", "enableTilt", "enableLook"}

\* snapshot: null
NoSnapshot == [f \in {} |-> TRUE]
IsNoSnapshot(flags) == DOMAIN flags = {}

\* the draw tools that share the lock
DrawKinds == {"polygon", "polyline"}

\* camera: the flags of the controller; snapshot, activeTokens: the fields of the lock,
\* the Map as the sequence of its entries in insertion order; tool: state, positions and
\* releaseDrawLock (TRUE for a closure held) of each draw tool; currentDrawKind: the
\* field of ToolController; first: the flags as they were at the first acquire made
\* since no draw tool held a closure
InitDraw ==
  [ camera |-> [f \in Flags |-> TRUE],
    snapshot |-> NoSnapshot,
    activeTokens |-> <<>>,
    tool |-> [k \in DrawKinds |->
               [state |-> "idle", positions |-> <<>>, releaseDrawLock |-> FALSE]],
    currentDrawKind |-> "none",
    first |-> NoSnapshot ]

\* { enableTranslate: false }, what both draw tools acquire the lock with
DrawOverrides == [f \in {"enableTranslate"} |-> FALSE]

\* Object.assign(next, o)
Assigned(next, o) == [f \in Flags |-> IF f \in DOMAIN o THEN o[f] ELSE next[f]]

\* Map.set(token, overrides): an entry of that token keeps its place
MapSet(entries, token, overrides) ==
  IF \E k \in 1..Len(entries) : entries[k].token = token
    THEN [k \in 1..Len(entries) |->
            IF entries[k].token = token THEN [token |-> token, overrides |-> overrides]
            ELSE entries[k]]
  ELSE Append(entries, [token |-> token, overrides |-> overrides])

\* Map.delete(token)
MapDelete(entries, token) == SelectSeq(entries, LAMBDA e : e.token # token)

\* InteractionLock.apply(): the snapshot, then the overrides in insertion order
LockApply(d) ==
  LET next[k \in 0..Len(d.activeTokens)] ==
        IF k = 0 THEN d.snapshot ELSE Assigned(next[k - 1], d.activeTokens[k].overrides)
  IN IF IsNoSnapshot(d.snapshot) THEN d
     ELSE [d EXCEPT !.camera = next[Len(d.activeTokens)]]

\* InteractionLock.restore()
LockRestore(d) ==
  IF IsNoSnapshot(d.snapshot) THEN d
  ELSE [d EXCEPT !.camera = d.snapshot, !.snapshot = NoSnapshot]

\* InteractionLock.acquire(token, overrides)
LockAcquire(d, token, overrides) ==
  LET d1 == IF IsNoSnapshot(d.snapshot) THEN [d EXCEPT !.snapshot = d.camera] ELSE d
  IN LockApply([d1 EXCEPT !.activeTokens = MapSet(@, token, overrides)])

\* InteractionLock.release(token)
LockRelease(d, token) ==
  LET d1 == [d EXCEPT !.activeTokens = MapDelete(@, token)]
  IN IF Len(d1.activeTokens) = 0 THEN LockRestore(d1) ELSE LockApply(d1)

\* the end of cancel() / cleanupTemp() and of finish(): the closure is called and dropped
ReleaseDrawLock(d, kind) ==
  IF d.tool[kind].releaseDrawLock
    THEN LockRelease([d EXCEPT !.tool[kind].releaseDrawLock = FALSE], "draw")
  ELSE d

\* PolygonDrawTool.cancel() / BaseDrawTool.cancel()
ToolCancel(d, kind) ==
  ReleaseDrawLock([d EXCEPT !.tool[kind].state = "idle", !.tool[kind].positions = <<>>],
                  kind)

\* PolygonDrawTool.start() / BaseDrawTool.start()
ToolStart(d, kind) ==
  LET d1 == [ToolCancel(d, kind) EXCEPT !.tool[kind].state = "drawing"]
      anyHeld == \E k \in DrawKinds : d1.tool[k].releaseDrawLock
      d2 == [d1 EXCEPT !.tool[kind].releaseDrawLock = TRUE,
                       !.first = IF anyHeld THEN @ ELSE d1.camera]
  IN IF d.tool[kind].state = "drawing" THEN d
     ELSE IF d1.tool[kind].releaseDrawLock THEN d1
     ELSE LockAcquire(d2, "draw", DrawOverrides)

\* BaseDrawTool.dedupeTailVertex(positions): a tail closer than 1e-6 to the point before
\* it is popped
dedupeTailVertex(ps) ==
  IF Len(ps) >= 2 /\ PosEq(ps[Len(ps)], ps[Len(ps) - 1]) THEN SubSeq(ps, 1, Len(ps) - 1)
  ELSE ps

\* what finish() does with the points drawn. PolygonDrawTool.finish() returns early
\* ("rejected") on fewer than 3 points and on a ring that fails validation, and else
\* pushes its command ("pushed"). BaseDrawTool.finish() returns early on fewer than
\* minPoints() points after the dedupe; past that it calls commit() and goes on to
\* committed whatever commit() did, and PolylineDrawTool.commit() returns without a
\* push ("unpushed") when validatePolylinePositions finds an error
FinishOutcome(kind, ps) ==
  IF kind = "polygon"
    THEN IF Len(ps) < 3 THEN "rejected"
         ELSE IF validatePolygonPositions(ps, FALSE) # "ok" THEN "rejected"
         ELSE "pushed"
  ELSE LET qs == dedupeTailVertex(ps)
       IN IF Len(qs) < 2 THEN "rejected"
          ELSE IF validatePolylinePositions(qs) # "ok" THEN "unpushed"
          ELSE "pushed"

\* the outcomes a finish() of the tool can have
FinishOutcomes(kind) ==
  IF kind = "polygon" THEN {"rejected", "pushed"} ELSE {"rejected", "unpushed", "pushed"}

\* a finish() that keeps the closure of the lock it holds
ToolFinishKeepsLock(d, kind, outcome) ==
  IF d.tool[kind].state # "drawing" \/ outcome = "rejected" THEN d
  ELSE [d EXCEPT !.tool[kind].state = "committed", !.tool[kind].positions = <<>>]

\* PolygonDrawTool.finish() / BaseDrawTool.finish(), past the push of the command
ToolFinish(d, kind, outcome) ==
  LET d1 == IF kind = "polygon" THEN d
            ELSE [d EXCEPT !.tool[kind].positions = dedupeTailVertex(@)]
  IN IF d.tool[kind].state # "drawing" THEN d
     ELSE IF outcome = "rejected" THEN d1
     ELSE [ReleaseDrawLock(d1, kind) EXCEPT !.tool[kind].state = "committed",
                                            !.tool[kind].positions = <<>>]

\* ToolController.isDrawing()
isDrawing(d) ==
  d.currentDrawKind # "none" /\ d.tool[d.currentDrawKind].state = "drawing"

\* ToolController.cancelDrawing()
cancelDrawing(d) ==
  IF d.currentDrawKind = "none" THEN d
  ELSE [ToolCancel(d, d.currentDrawKind) EXCEPT !.currentDrawKind = "none"]

\* ToolController.startDrawing(kind), past edit.cancel(): the edit tool has neither a
\* selection nor a drag where the draw tools are modelled
startDrawing(d, kind) ==
  ToolStart([cancelDrawing(d) EXCEPT !.currentDrawKind = kind], kind)

\* a step of the draw tools that leaves the map alone
DrawStep(d) ==
  /\ draw' = d
  /\ ghost' = [ghost EXCEPT !.op = "draw"]
  /\ snapped' = NoSnap
  /\ UNCHANGED <<store, index, indexPoly, entity, done, undone, edit>>

\* the buttons that start a drawing
StartDrawing(kind) == DrawStep(startDrawing(draw, kind))

\* the Cancel button
CancelDrawing ==
  /\ draw.currentDrawKind # "none"
  /\ DrawStep(cancelDrawing(draw))

\* keydown, Escape, in ToolController: a drawing is cancelled
EscapeDrawing ==
  /\ isDrawing(draw)
  /\ DrawStep(cancelDrawing(draw))

\* the timer of finish(): committed becomes idle
ToolSettles(kind) ==
  /\ draw.tool[kind].state = "committed"
  /\ DrawStep([draw EXCEPT !.tool[kind].state = "idle"])

-----------------------------------------------------------------------------
(* Calls of the FeatureStore interface, as any client of the store may make them *)

\* the features clients upsert: the catalogue, P with another geometry, and P's id
\* reused for a polyline
MovedP == <<Pt(0, 0), Pt(40, 0), Pt(40, 20), Pt(0, 20)>>
StoreFeatures ==
  Catalogue \cup { Feature("P", "polygon", MovedP), Feature("P", "polyline", LineL),
                   Feature("L", "polygon", LineL) }

UpsertCall(f, silent) ==
  /\ SetWorld(StoreUpsert(World, f, silent))
  /\ ghost' = [ghost EXCEPT !.op = "upsert", !.id = f.id, !.arg = f, !.silent = silent,
                            !.had = store[f.id] # NoFeature,
                            !.silentCalls = @ \/ silent]
  /\ snapped' = NoSnap
  /\ UNCHANGED <<done, undone>>

RemoveCall(id, silent) ==
  /\ SetWorld(StoreRemove(World, id, silent))
  /\ ghost' = [ghost EXCEPT !.op = "remove", !.id = id, !.arg = NoFeature,
                            !.silent = silent, !.had = store[id] # NoFeature,
                            !.silentCalls = @ \/ (silent /\ store[id] # NoFeature)]
  /\ snapped' = NoSnap
  /\ UNCHANGED <<done, undone>>

ClearCall(silent) ==
  /\ SetWorld(StoreClear(World, silent))
  /\ ghost' = [ghost EXCEPT !.op = "clear", !.id = NoId, !.arg = NoFeature,
                            !.silent = silent, !.had = StoreIds(store) # {},
                            !.silentCalls = @ \/ (silent /\ StoreIds(store) # {})]
  /\ snapped' = NoSnap
  /\ UNCHANGED <<done, undone>>

Init ==
  /\ store = [i \in Ids |-> NoFeature]
  /\ index = EmptyIndex
  /\ indexPoly = EmptyIndex
  /\ entity = EmptyLayer
  /\ done = <<>>
  /\ undone = <<>>
  /\ edit = InitEdit
  /\ snapped = NoSnap
  /\ ghost = InitGhost
  /\ draw = InitDraw

NextStore ==
  \/ \E f \in StoreFeatures, silent \in BOOLEAN : UpsertCall(f, silent)
  \/ \E id \in Ids, silent \in BOOLEAN : RemoveCall(id, silent)
  \/ \E silent \in BOOLEAN : ClearCall(silent)

SpecStore == Init /\ [][NextStore]_vars

\* where and how far clients query the indexes: at and between the vertices of the
\* catalogue; with the radius of a snap query, with one spanning cells, and with the
\* radii 0 and -1, which query() clamps
QueryPoints == { Pt(0, 0), Pt(20, 10), Pt(40, 0), Pt(60, 20), Pt(36, -12) }
QueryRadii == { ThresholdPx * MetersPerPixel, 2 * CellSize }
ClampedRadii == { 0, 0 - 1 }

\* index.query(worldPos, radiusMeters), on both versions of the index; the call is kept
\* where the last answer to a client is kept
QueryCall(p, radius) ==
  /\ snapped' = [ path |-> "query", cursor |-> p, radius |-> radius,
                  result |-> IndexQuery(index, p, radius),
                  polyResult |-> PolyIndexQuery(indexPoly, p, radius) ]
  /\ ghost' = [ghost EXCEPT !.op = "query"]
  /\ UNCHANGED <<store, index, indexPoly, entity, done, undone, edit, draw>>

\* the features on the map when the indexes are queried: the catalogue, and the square
\* with its lower edge twice as long
QueryFeatures == Catalogue \cup { Feature("P", "polygon", MovedP) }

\* the store calls that emit their event, and queries of the indexes between them
NextQuery ==
  \/ \E f \in QueryFeatures : UpsertCall(f, FALSE)
  \/ \E id \in Ids : RemoveCall(id, FALSE)
  \/ ClearCall(FALSE)
  \/ \E p \in QueryPoints, radius \in QueryRadii \cup ClampedRadii : QueryCall(p, radius)

SpecQuery == Init /\ [][NextQuery]_vars

-----------------------------------------------------------------------------
(* Calls of SnappingEngine.snap, as the tools make them, on the index and on the data *)
(* source the store calls have produced                                              *)

\* cursors near P, between P and L, and on the tie of P's vertex 1 and T
SnapCursors == { Pt(22, -2), Pt(50, 6), Pt(28, -6), Pt(10, 8) }

\* excludeOwnerId: a tool passes the id it selects by, which is the feature id where the
\* layer renders the store, and the entity id where the data source is all there is
OwnerIds == Ids \cup { EntityId[i] : i \in Ids } \cup {NoId}

\* the call had no excludeIndex, its owner has a vertex, a midpoint and an edge within the
\* threshold of the cursor, and the result is a candidate of another owner
OwnerLeftOut(call, owner) ==
  LET all == IF call.path = "index"
               THEN IndexCandidates(index, call.cursor, Query(NoId, NoIndex))
             ELSE EntityCandidates(entity, call.cursor, Query(NoId, NoIndex))
  IN /\ call.query = Query(owner, NoIndex) /\ owner # NoId
     /\ \A t \in {"vertex", "midpoint", "edge"} :
          \E k \in 1..Len(all) : all[k].ownerId = owner /\ all[k].type = t
     /\ call.result.type # "none"

\* snap() reads and changes nothing, so one call after each change of the store tells
\* what any number of calls would
SnapOnIndex(cur, q) ==
  /\ snapped = NoSnap
  /\ snapped' = snap(index, cur, q)
  /\ ghost' = [ghost EXCEPT !.op = "snap",
                            !.indexExcluded = @ \/ OwnerLeftOut(snapped', q.excludeOwnerId)]
  /\ UNCHANGED <<store, index, indexPoly, entity, done, undone, edit, draw>>

SnapOnEntities(cur, q) ==
  /\ snapped = NoSnap
  /\ snapped' = snapFallback(entity, cur, q)
  /\ ghost' = [ghost EXCEPT !.op = "snap"]
  /\ UNCHANGED <<store, index, indexPoly, entity, done, undone, edit, draw>>

\* what the data source holds when the tools snap: two polygons and a point
SnapFeatures ==
  { Feature("P", "polygon", MovedP), Feature("L", "polygon", LineL), Feature("T", "point", PointT) }

NextSnap ==
  \/ \E f \in SnapFeatures : UpsertCall(f, FALSE)
  \/ \E cur \in SnapCursors, o \in Ids \cup {NoId}, i \in {NoIndex, 0, 1} :
       SnapOnIndex(cur, Query(o, i))
  \/ \E cur \in SnapCursors, o \in OwnerIds, i \in {NoIndex, 0, 1} :
       SnapOnEntities(cur, Query(o, i))

SpecSnap == Init /\ [][NextSnap]_vars

-----------------------------------------------------------------------------
(* The choice among candidates, on lists of candidates as snap() may have pushed them *)

\* candidates a list holds at most
MaxCands == 3

\* defaultSnapPriority()
defaultSnapPriority ==
  [vertex |-> PrioVertex, midpoint |-> PrioMidpoint, edge |-> PrioEdge, grid |-> PrioGrid]

\* distances of 5, 5.5, 5.75 and 6.5 px
Distances == { 5 * SubPx, 5 * SubPx + 2, 5 * SubPx + 3, 6 * SubPx + 2 }

SomeCandidates ==
  { Candidate(t, Pt(0, 0), d, defaultSnapPriority[t], "P", 0) :
      t \in DOMAIN defaultSnapPriority, d \in Distances }

ResolveCall(candidates) ==
  /\ snapped = NoSnap
  /\ snapped' = SnapCall("resolve", NullPos, Query(NoId, NoIndex), candidates)
  /\ ghost' = [ghost EXCEPT !.op = "resolve"]
  /\ UNCHANGED <<store, index, indexPoly, entity, done, undone, edit, draw>>

NextResolve ==
  \E n \in 1..MaxCands : \E candidates \in [1..n -> SomeCandidates] : ResolveCall(candidates)

SpecResolve == Init /\ [][NextResolve]_vars

-----------------------------------------------------------------------------
(* SnappingEngine.snap under the configuration the edit tool hands to the engine *)

\* defaultSnapTypes() and defaultSnapSources()
defaultSnapTypes == [vertex |-> TRUE, midpoint |-> TRUE, edge |-> TRUE, grid |-> FALSE]
defaultSnapSources == [polygons |-> TRUE, grid |-> FALSE]

\* FeatureEditTool.gridSizeMeters, in world units of one metre
GridSizeMeters == 5

\* Math.round(a / g) * g
RoundTo(a, g) == ((2 * a + g) \div (2 * g)) * g

\* cartographicSnapToGrid(cart, gridSizeMeters): each coordinate goes to the nearest step
cartographicSnapToGrid(p, g) ==
  IF IsReal(p) THEN Pt(RoundTo(p.x, g), RoundTo(p.y, g)) ELSE clonePosition(p)

\* a grid test that asks for the type alone
GridOnByTypeAlone(types, sources) == types.grid

\* if (this.sources.grid && this.types.grid)
GridOn(types, sources) == sources.grid /\ types.grid

\* the grid candidate snap() pushes last, if any
GridCandidates(types, sources, world, cur) ==
  LET snappedPoint == cartographicSnapToGrid(world, GridSizeMeters)
      d == ScreenDist(snappedPoint, cur)
  IN IF GridOn(types, sources) /\ d # Far
       THEN <<Candidate("grid", snappedPoint, d, PrioGrid, NoId, NoIndex)>>
     ELSE <<>>

\* the candidates of the geometry: nothing is pushed unless sources.polygons, and a
\* candidate of a type is pushed only under if (this.types.<type>); all is what is pushed
\* with every type on
GeometryCandidates(types, sources, all) ==
  IF sources.polygons THEN SelectSeq(all, LAMBDA c : types[c.type]) ELSE <<>>

\* snap(worldCandidate, cursorScreenPos, query) of an engine configured by applySnapConfig()
snapConfigured(e, path, all, cur, q) ==
  SnapCall(path, cur, q,
           GeometryCandidates(e.snapTypes, e.snapSources, all)
             \o GridCandidates(e.snapTypes, e.snapSources, cur, cur))

\* setSnapTypes({ [t]: v }), then applySnapConfig()
SetSnapTypes(t, v) ==
  /\ edit.snapTypes[t] # v
  /\ edit' = [edit EXCEPT !.snapTypes[t] = v]
  /\ snapped' = NoSnap
  /\ ghost' = [ghost EXCEPT !.op = "config"]
  /\ UNCHANGED <<store, index, indexPoly, entity, done, undone, draw>>

\* setSnapSources({ [src]: v }), then applySnapConfig()
SetSnapSources(src, v) ==
  /\ edit.snapSources[src] # v
  /\ edit' = [edit EXCEPT !.snapSources[src] = v]
  /\ snapped' = NoSnap
  /\ ghost' = [ghost EXCEPT !.op = "config"]
  /\ UNCHANGED <<store, index, indexPoly, entity, done, undone, draw>>

SnapConfiguredOnIndex(cur, q) ==
  /\ snapped = NoSnap
  /\ snapped' = snapConfigured(edit, "index", IndexCandidates(index, cur, q), cur, q)
  /\ ghost' = [ghost EXCEPT !.op = "snap"]
  /\ UNCHANGED <<store, index, indexPoly, entity, done, undone, edit, draw>>

SnapConfiguredOnEntities(cur, q) ==
  /\ snapped = NoSnap
  /\ snapped' = snapConfigured(edit, "fallback", EntityCandidates(entity, cur, q), cur, q)
  /\ ghost' = [ghost EXCEPT !.op = "snap"]
  /\ UNCHANGED <<store, index, indexPoly, entity, done, undone, edit, draw>>

\* the queries the tools make: none, the selected feature, a dragged vertex of it
ConfigQueries == { Query(NoId, NoIndex), Query("P", NoIndex), Query("P", 0) }

\* what the data source holds when the configuration is changed: a polygon and a point
ConfigFeatures == { f \in SnapFeatures : f.id \in {"P", "T"} }

NextConfig ==
  \/ \E f \in ConfigFeatures : UpsertCall(f, FALSE)
  \/ \E t \in DOMAIN defaultSnapTypes, v \in BOOLEAN : SetSnapTypes(t, v)
  \/ \E src \in DOMAIN defaultSnapSources, v \in BOOLEAN : SetSnapSources(src, v)
  \/ \E cur \in SnapCursors, q \in ConfigQueries : SnapConfiguredOnIndex(cur, q)
  \/ \E cur \in SnapCursors, q \in ConfigQueries : SnapConfiguredOnEntities(cur, q)

SpecConfig == Init /\ [][NextConfig]_vars

-----------------------------------------------------------------------------
(* PickResolver.resolve, on lists of hits as scene.drillPick may return them *)

\* entities a list of picked objects holds at most
MaxPicked == 3

\* ResolvedHit, as toResolvedHit makes it of a picked entity: none for an object that is
\* no entity of the layer or the overlay
NoHit == [type |-> "none", featureId |-> NoId, kind |-> "none", index |-> NoIndex]
HandleHit(ownerId, i) == [type |-> "handle", featureId |-> ownerId, kind |-> "vertex", index |-> i]
FeatureHit(fid, kind) == [type |-> "feature", featureId |-> fid, kind |-> kind, index |-> NoIndex]

\* a score that gives the selected feature no bonus
scoreWithoutSelection(hit, selectedId) ==
  IF hit.type = "none" THEN -1
  ELSE IF hit.type = "handle"
    THEN 10000 + (IF hit.kind = "vertex" THEN 300 ELSE IF hit.kind = "midpoint" THEN 200 ELSE 100)
  ELSE 1000 + (IF hit.kind = "polyline" THEN 300 ELSE IF hit.kind = "polygon" THEN 200 ELSE 100)

\* PickResolver.score(hit, ctx); -1 stands for -Infinity
score(hit, selectedId) ==
  IF hit.type = "none" THEN -1
  ELSE IF hit.type = "handle"
    THEN 10000 + (IF hit.kind = "vertex" THEN 300 ELSE IF hit.kind = "midpoint" THEN 200 ELSE 100)
  ELSE 1000
       + (IF selectedId # NoId /\ hit.featureId = selectedId THEN 500 ELSE 0)
       + (IF hit.kind = "polyline" THEN 300 ELSE IF hit.kind = "polygon" THEN 200 ELSE 100)

\* PickResolver.resolve(screenPos, ctx) for the hits of the picked objects, in pick order:
\* a hit replaces the best so far only with a greater score
resolve(picked, selectedId) ==
  LET best[k \in 0..Len(picked)] ==
        IF k = 0 THEN [hit |-> NoHit, score |-> -1]
        ELSE IF picked[k].type # "none" /\ score(picked[k], selectedId) > best[k - 1].score
          THEN [hit |-> picked[k], score |-> score(picked[k], selectedId)]
        ELSE best[k - 1]
  IN best[Len(picked)].hit

\* the hits of the objects under the pointer: handles of P, and the bodies of the features
PickedHits ==
  { NoHit, HandleHit("P", 0), HandleHit("P", 1),
    FeatureHit("P", "polygon"), FeatureHit("L", "polyline"), FeatureHit("T", "point") }

\* the call is kept where the last answer to a tool is kept
ResolveHitCall(picked, selectedId) ==
  /\ snapped = NoSnap
  /\ snapped' = [ path |-> "pick", picked |-> picked, selectedId |-> selectedId,
                  result |-> resolve(picked, selectedId) ]
  /\ ghost' = [ghost EXCEPT !.op = "pick"]
  /\ UNCHANGED <<store, index, indexPoly, entity, done, undone, edit, draw>>

NextPick ==
  \E n \in 0..MaxPicked : \E picked \in [1..n -> PickedHits], selectedId \in Ids \cup {NoId} :
    ResolveHitCall(picked, selectedId)

SpecPick == Init /\ [][NextPick]_vars

-----------------------------------------------------------------------------
(* FeatureEditTool: selection, drag begin, preview, commit *)

\* select(id)
select(W, id) ==
  IF W.edit.selectedId = id THEN W
  ELSE LET e1 == deselect(W.edit)
           feature == IF id \in Ids THEN W.store[id] ELSE NoFeature
       IN IF feature = NoFeature \/ getEntity(W.entity, id) = NoFeature
            THEN [W EXCEPT !.edit = e1]
          ELSE [W EXCEPT !.edit =
                  refreshHandles([e1 EXCEPT !.selectedId = id, !.selectedKind = feature.kind,
                                            !.activeHandleIndex = NoIndex], W.store)]

\* beginHandleDrag(screenPos, props) for the handle of ownerId with index idx; the pick
\* position under the pointer exists
beginHandleDrag(W, ownerId, idx) ==
  LET W1 == IF W.edit.selectedId # ownerId THEN select(W, ownerId) ELSE W
      e == W1.edit
      kind == e.selectedKind
      e2 == [e EXCEPT !.dragMode = "vertex",
                      !.dragIndex = IF kind = "point" THEN 0 ELSE idx,
                      !.activeHandleIndex = idx]
      feat == getKind(W1.store, ownerId, kind)
  IN IF e.selectedId = NoId \/ kind = "none" THEN W1
     ELSE IF feat = NoFeature THEN [W1 EXCEPT !.edit = e2]
     ELSE IF kind = "point"
       THEN [W1 EXCEPT !.edit = [e2 EXCEPT !.dragBeforeFeature = snapshotFeature(feat),
                                          !.dragBeforePosition = clonePosition(feat.pos[1]),
                                          !.cameraEnabled = FALSE]]
     ELSE [W1 EXCEPT !.edit = [e2 EXCEPT !.dragBeforeFeature = snapshotFeature(feat),
                                        !.dragBeforePositions = clonePositions(feat.pos),
                                        !.cameraEnabled = FALSE]]

\* the Shift + LEFT_DOWN handler for a pick of feature fid at world position anchor
beginTranslate(W, fid, anchor) ==
  LET W1 == IF W.edit.selectedId # fid THEN select(W, fid) ELSE W
      e == W1.edit
      kind == e.selectedKind
      feat == getKind(W1.store, fid, kind)
      e2 == [e EXCEPT !.dragMode = "translate", !.dragIndex = NoIndex,
                      !.dragBeforeFeature = snapshotFeature(feat),
                      !.dragStartAnchor = clonePosition(anchor),
                      !.cameraEnabled = FALSE]
  IN IF e.selectedId = NoId \/ kind = "none" \/ feat = NoFeature THEN W1
     ELSE IF kind = "point"
       THEN [W1 EXCEPT !.edit = [e2 EXCEPT !.dragBeforePosition = clonePosition(feat.pos[1])]]
     ELSE [W1 EXCEPT !.edit = [e2 EXCEPT !.dragBeforePositions = clonePositions(feat.pos)]]

\* snapWithEngine(world, screen, opts): it returns res.candidate, the candidate object and
\* not its position, when the engine found one.  hit tells which; call is the engine's call
snapWithEngine(ix, cur, q) ==
  LET call == snap(ix, cur, q)
  IN [hit |-> call.result.type # "none", world |-> cur, call |-> call]

\* a clone that loses the position also when the engine returned nothing
SnappedPositionLost(s) == Origin

\* Cartesian3.clone of what snapWithEngine returned: a candidate object has no x, y, z
SnappedPosition(s) == IF s.hit THEN Origin ELSE clonePosition(s.world)

\* Cartesian3.subtract(what snapWithEngine returned, anchor)
SnappedDelta(s, anchor) == IF s.hit THEN NaNPos ELSE PosSub(s.world, anchor)

\* nextPositions[index] = next, on a copy; an index past the end grows the array
WithPosition(ps, i, next) ==
  [k \in 1..Max2(Len(ps), i + 1) |->
     IF k = i + 1 THEN next ELSE IF k <= Len(ps) THEN ps[k] ELSE NullPos]

\* applyPointMovePreview(next)
applyPointMovePreview(W, next) ==
  LET e == W.edit
      ent == getEntity(W.entity, e.selectedId)
  IN IF e.selectedId = NoId \/ ent = NoFeature THEN W
     ELSE [W EXCEPT !.edit.dragPreviewPosition = clonePosition(next),
                    !.entity.shown[e.selectedId].pos =
                       IF ent.kind = "point" THEN <<clonePosition(next)>> ELSE @]

\* applyPositionsPreview(nextPositions): the entity shows them, the store is not written
applyPositionsPreview(W, nextPositions) ==
  LET e == W.edit
      ent == getEntity(W.entity, e.selectedId)
  IN IF e.selectedId = NoId \/ e.selectedKind = "none" \/ ent = NoFeature THEN W
     ELSE [W EXCEPT !.edit.dragPreviewPositions = clonePositions(nextPositions),
                    !.entity.shown[e.selectedId].pos =
                       IF e.selectedKind \in {"polygon", "polyline"} /\ ent.kind = e.selectedKind
                         THEN clonePositions(nextPositions) ELSE @]

\* getCommittedPositions(): the selected feature's positions in the store
getCommittedPositions(W) ==
  LET e == W.edit
      feat == IF e.selectedKind \in {"polygon", "polyline"}
                THEN getKind(W.store, e.selectedId, e.selectedKind) ELSE NoFeature
  IN feat.pos

\* applyVertexMovePreview(index, next)
applyVertexMovePreview(W, i, next) ==
  LET e == W.edit
      positions == getCommittedPositions(W)
  IN IF e.selectedId = NoId \/ e.selectedKind = "none" THEN W
     ELSE IF getEntity(W.entity, e.selectedId) = NoFeature THEN W
     ELSE IF getKind(W.store, e.selectedId, e.selectedKind) = NoFeature
               \/ e.selectedKind = "point" THEN W
     ELSE applyPositionsPreview(W, WithPosition(clonePositions(positions), i, clonePosition(next)))

\* a reset that leaves the camera as the drag had it
ResetDragKeepsCamera(e) ==
  [e EXCEPT !.dragMode = "none", !.dragIndex = NoIndex,
            !.dragBeforePositions = <<>>, !.dragBeforePosition = NullPos,
            !.dragBeforeFeature = NoFeature, !.dragStartAnchor = NullPos,
            !.dragPreviewPositions = <<>>, !.dragPreviewPosition = NullPos]

\* the drag fields after the reset of the LEFT_UP handler, and unlockCamera()
ResetDrag(e) ==
  [e EXCEPT !.dragMode = "none", !.dragIndex = NoIndex,
            !.dragBeforePositions = <<>>, !.dragBeforePosition = NullPos,
            !.dragBeforeFeature = NoFeature, !.dragStartAnchor = NullPos,
            !.dragPreviewPositions = <<>>, !.dragPreviewPosition = NullPos,
            !.cameraEnabled = TRUE]

\* what validation says of the preview a pointer-up finds: "ok", "invalid", "throw" (the
\* error out of validatePolygonPositions), or "nopreview" when no move wrote one
PreviewCheck(kind, afterPositions, afterPosition, checks) ==
  IF kind = "point"
    THEN IF afterPosition = NullPos THEN "nopreview"
         ELSE IF validatePointPosition(afterPosition) = "ok" THEN "ok" ELSE "invalid"
  ELSE IF afterPositions = <<>> THEN "nopreview"
  ELSE LET v == IF kind = "polygon" THEN validatePolygonPositions(afterPositions, checks)
                ELSE validatePolylinePositions(afterPositions)
       IN IF v \in {"ok", "throw"} THEN v ELSE "invalid"

\* a pointer-up that commits whatever preview it finds
CommitsAnyPreview(kind, afterPositions, afterPosition, checks) ==
  IF PreviewCheck(kind, afterPositions, afterPosition, checks) = "nopreview" THEN "nopreview"
  ELSE "commit"

\* the branch the LEFT_UP handler takes after the reset, given a before snapshot
CommitDecision(kind, afterPositions, afterPosition, checks) ==
  LET v == PreviewCheck(kind, afterPositions, afterPosition, checks)
  IN IF v = "ok" THEN "commit" ELSE IF v = "invalid" THEN "reject" ELSE v

\* the feature the LEFT_UP handler builds from the preview: { ...before, id, kind, geometry }
AfterFeature(id, kind, afterPositions, afterPosition) ==
  IF kind = "point" THEN Feature(id, kind, <<clonePosition(afterPosition)>>)
  ELSE Feature(id, kind, clonePositions(afterPositions))

\* the LEFT_UP handler, past its first return: the machine after it and the branch taken
LeftUpHandler(M, checks) ==
  LET e == M.W.edit
      id == e.selectedId
      kind == e.selectedKind
      before == e.dragBeforeFeature
      W1 == [M.W EXCEPT !.edit = ResetDrag(e)]
      branch == IF before = NoFeature THEN "nobefore"
                ELSE CommitDecision(kind, e.dragPreviewPositions, e.dragPreviewPosition, checks)
      after == AfterFeature(id, kind, e.dragPreviewPositions, e.dragPreviewPosition)
      refreshed(W) == [W EXCEPT !.edit = refreshHandles(W.edit, W.store)]
  IN [ branch |-> branch,
       M |-> IF branch = "reject"
               THEN Machine(refreshed(StoreUpsert(W1, before, FALSE)), M.done, M.undone)
             ELSE IF branch = "commit"
               THEN LET M2 == StackPush(Machine(W1, M.done, M.undone),
                                        UpdateFeatureCommand(id, before, snapshotFeature(after)))
                    IN Machine(refreshed(M2.W), M2.done, M2.undone)
             ELSE Machine(W1, M.done, M.undone) ]

\* Array.prototype.filter((_, i) => i !== index)
WithoutPosition(ps, i) ==
  [k \in 1..(Len(ps) - (IF i >= 0 /\ i < Len(ps) THEN 1 ELSE 0)) |->
     IF i >= 0 /\ k > i THEN ps[k + 1] ELSE ps[k]]

\* a deletion that neither counts the vertices left nor validates them
deleteActiveVertexUnchecked(M, checks) ==
  LET e == M.W.edit
      feat == getKind(M.W.store, e.selectedId, e.selectedKind)
      nextPositions == WithoutPosition(clonePositions(feat.pos), e.activeHandleIndex)
      M2 == StackPush(Machine([M.W EXCEPT !.edit.activeHandleIndex = NoIndex], M.done, M.undone),
                      UpdateFeatureCommand(e.selectedId, snapshotFeature(feat),
                                           snapshotFeature([feat EXCEPT !.pos = nextPositions])))
  IN IF e.selectedId = NoId \/ e.selectedKind \in {"none", "point"} \/ feat = NoFeature
          \/ e.activeHandleIndex = NoIndex
       THEN M
     ELSE Machine([M2.W EXCEPT !.edit = refreshHandles(M2.W.edit, M2.W.store)], M2.done, M2.undone)

\* deleteActiveVertex()
deleteActiveVertex(M, checks) ==
  LET e == M.W.edit
      kind == e.selectedKind
      feat == getKind(M.W.store, e.selectedId, kind)
      nextPositions == WithoutPosition(clonePositions(feat.pos), e.activeHandleIndex)
      valid == IF kind = "polygon" THEN validatePolygonPositions(nextPositions, checks) = "ok"
               ELSE validatePolylinePositions(nextPositions) = "ok"
      least == IF kind = "polygon" THEN 3 ELSE 2
      W1 == [M.W EXCEPT !.edit.activeHandleIndex = NoIndex]
      M2 == StackPush(Machine(W1, M.done, M.undone),
                      UpdateFeatureCommand(e.selectedId, snapshotFeature(feat),
                                           snapshotFeature([feat EXCEPT !.pos = nextPositions])))
  IN IF e.selectedId = NoId \/ kind \in {"none", "point"} \/ e.activeHandleIndex = NoIndex THEN M
     ELSE IF feat = NoFeature \/ Len(feat.pos) <= least \/ ~valid THEN M
     ELSE Machine([M2.W EXCEPT !.edit = refreshHandles(M2.W.edit, M2.W.store)], M2.done, M2.undone)

\* what deleteActiveVertex() tells the user: the count of vertices is answered with
\* alert(), a failed validation with opts.onNotice
deleteActiveVertexSays(M, checks) ==
  LET e == M.W.edit
      kind == e.selectedKind
      feat == getKind(M.W.store, e.selectedId, kind)
      nextPositions == WithoutPosition(clonePositions(feat.pos), e.activeHandleIndex)
      v == IF kind = "polygon" THEN validatePolygonPositions(nextPositions, checks)
           ELSE validatePolylinePositions(nextPositions)
  IN IF e.selectedId = NoId \/ kind \in {"none", "point"} \/ e.activeHandleIndex = NoIndex
          \/ feat = NoFeature
       THEN "none"
     ELSE IF Len(feat.pos) <= (IF kind = "polygon" THEN 3 ELSE 2) THEN "alert"
     ELSE IF v \notin {"ok", "throw"} THEN "notice"
     ELSE "none"

\* deleteSelected()
deleteSelected(M) ==
  IF M.W.edit.selectedId = NoId THEN M
  ELSE StackPush(Machine([M.W EXCEPT !.edit = deselect(M.W.edit)], M.done, M.undone),
                 RemoveFeatureCommand(M.W.edit.selectedId))

\* the keydown listener for Delete / Backspace
onDeleteKey(M, checks) ==
  IF M.W.edit.selectedId = NoId THEN M
  ELSE IF M.W.edit.activeHandleIndex # NoIndex THEN deleteActiveVertex(M, checks)
  ELSE deleteSelected(M)

\* pickAndSelect(screenPos): a handle becomes the active one, and no drag begins
pickAndSelect(W, pick) ==
  IF pick.type = "none" THEN [W EXCEPT !.edit = deselect(W.edit)]
  ELSE IF pick.type = "handle"
    THEN LET W1 == IF W.edit.selectedId # pick.id THEN select(W, pick.id) ELSE W
         IN [W1 EXCEPT !.edit.activeHandleIndex = pick.index]
  ELSE select(W, pick.id)

\* distancePointToSegment2D(p, a, b) of FeatureEditTool.ts, squared: the fraction n / m
SegmentDistance2(p, a, b) ==
  LET vx == b.x - a.x
      vy == b.y - a.y
      wx == p.x - a.x
      wy == p.y - a.y
      c1 == vx * wx + vy * wy
      c2 == vx * vx + vy * vy
      cross == vx * wy - vy * wx
  IN IF c1 <= 0 THEN [n |-> Dist2(p, a), m |-> 1]
     ELSE IF c2 <= c1 THEN [n |-> Dist2(p, b), m |-> 1]
     ELSE [n |-> cross * cross, m |-> c2]

\* x < y for fractions n / m, whole parts first
FractionLess(x, y) ==
  LET qx == x.n \div x.m
      qy == y.n \div y.m
  IN qx < qy \/ (qx = qy /\ (x.n % x.m) * y.m < (y.n % y.m) * x.m)

\* findClosestEdgeInsertion(positions, picked, screenPos, wrap): the first of the closest
\* segments whose ends project to the screen; snapWithEngine around the projected point;
\* ok when the segment is within 1.5 thresholds of the pointer.  hit tells that
\* snapWithEngine returned a candidate object in place of the projected point
findClosestEdgeInsertion(W, positions, picked, wrap) ==
  LET n == Len(positions)
      segCount == IF wrap THEN n ELSE n - 1
      a(i) == positions[i + 1]
      b(i) == positions[((i + 1) % n) + 1]
      seen == { i \in 0..(segCount - 1) : IsReal(a(i)) /\ IsReal(b(i)) }
      d(i) == SegmentDistance2(picked, a(i), b(i))
      best == CHOOSE i \in seen :
                \A j \in seen : ~FractionLess(d(j), d(i)) /\ (j < i => FractionLess(d(i), d(j)))
      projected == closestPointOnSegment3D(picked, a(best), b(best))
      call == IF W.edit.snapEnabled
                THEN SnapCall("index", picked, Query(W.edit.selectedId, NoIndex),
                              IndexCandidatesAround(W.index, projected, picked,
                                                    Query(W.edit.selectedId, NoIndex)))
              ELSE NoSnap
  IN IF n < 2 \/ seen = {}
       THEN [ok |-> FALSE, insertIndex |-> NoIndex, hit |-> FALSE, projected |-> NullPos,
             call |-> NoSnap]
     ELSE [ ok |-> 4 * d(best).n <= 9 * ThresholdPx * ThresholdPx * d(best).m,
            insertIndex |-> best + 1,
            hit |-> call.result.type # "none",
            projected |-> projected,
            call |-> call ]

\* Array.prototype.splice(index, 0, p) on a copy
Spliced(ps, i, p) ==
  [k \in 1..(Len(ps) + 1) |-> IF k <= i THEN ps[k] ELSE IF k = i + 1 THEN p ELSE ps[k - 1]]

\* the call of findClosestEdgeInsertion that tryInsertPointOnPolygon and
\* tryInsertPointOnPolyline make for the selected feature, the pointer over picked
InsertionAt(W, picked) ==
  LET kind == W.edit.selectedKind
      feat == getKind(W.store, W.edit.selectedId, kind)
  IN findClosestEdgeInsertion(W, feat.pos, picked, kind = "polygon")

\* tryInsertPointOnPolygon / tryInsertPointOnPolyline(screenPos), r being what its call
\* of findClosestEdgeInsertion returns.  A candidate object in the array reads as NaN in
\* the validation, where the debug checks of Cesium throw for it, and is cloned to
\* (0,0,0) by snapshotFeature.  outcome: "inserted", "no" (false is returned) or "throw"
tryInsertPoint(M, r, checks) ==
  LET e == M.W.edit
      kind == e.selectedKind
      feat == getKind(M.W.store, e.selectedId, kind)
      next == Spliced(clonePositions(feat.pos), r.insertIndex,
                      IF r.hit THEN NaNPos ELSE r.projected)
      v == IF r.hit /\ checks THEN "throw"
           ELSE IF kind = "polygon" THEN validatePolygonPositions(next, checks)
           ELSE validatePolylinePositions(next)
      after == [feat EXCEPT !.pos = Spliced(clonePositions(feat.pos), r.insertIndex,
                                            IF r.hit THEN Origin ELSE clonePosition(r.projected))]
      M2 == StackPush(M, UpdateFeatureCommand(e.selectedId, snapshotFeature(feat),
                                              snapshotFeature(after)))
  IN IF e.selectedId = NoId \/ feat = NoFeature
       THEN [outcome |-> "no", M |-> M, call |-> NoSnap, said |-> "none"]
     ELSE IF ~r.ok THEN [outcome |-> "no", M |-> M, call |-> r.call, said |-> "none"]
     ELSE IF v # "ok"
       THEN [ outcome |-> IF v = "throw" THEN "throw" ELSE "no", M |-> M, call |-> r.call,
              said |-> IF v = "throw" THEN "none" ELSE "notice" ]
     ELSE [ outcome |-> "inserted",
            M |-> Machine([M2.W EXCEPT !.edit = refreshHandles(M2.W.edit, M2.W.store)],
                          M2.done, M2.undone),
            call |-> r.call, said |-> "none" ]

\* the Ctrl + LEFT_DOWN handler: an insertion on the selected polygon or polyline, or
\* else pickAndSelect; ins is InsertionAt for the place of the pointer
onCtrlLeftDown(M, ins, pick, checks) ==
  LET e == M.W.edit
      r == IF e.selectedKind \in {"polygon", "polyline"} THEN tryInsertPoint(M, ins, checks)
           ELSE [outcome |-> "no", M |-> M, call |-> NoSnap, said |-> "none"]
  IN IF e.selectedId = NoId \/ e.selectedKind = "none" THEN r
     ELSE IF r.outcome = "no"
       THEN [r EXCEPT !.M = Machine(pickAndSelect(M.W, pick), M.done, M.undone)]
     ELSE r

-----------------------------------------------------------------------------
(* The editor: draw tools, pointer and key events of FeatureEditTool, undo and redo *)

\* world positions under the pointer during a drag: clear of everything, next to vertex 1
\* of the square, and as far from that vertex as from the point
Cursors == { Pt(0 - 20, 0 - 20), Pt(22, 0 - 2), Pt(28, 0 - 6) }

\* the entity of feature id is on screen where the feature's first position is
Pickable(id) == entity.shown[id] # NoFeature /\ store[id] # NoFeature /\ IsReal(store[id].pos[1])

\* PickService.pickPosition on the body of a feature: the place of its first position
BodyAnchor(id) == store[id].pos[1]

NoPick == [type |-> "none", id |-> NoId, index |-> NoIndex]

\* what PickService.pickEntity can return: nothing, a handle of the overlay, or the
\* entity of a feature the layer shows
Picks ==
  {NoPick}
    \cup { [type |-> "handle", id |-> edit.handles[k].ownerId, index |-> edit.handles[k].index] :
             k \in 1..Len(edit.handles) }
    \cup { [type |-> "feature", id |-> i, index |-> NoIndex] : i \in { j \in Ids : Pickable(j) } }

\* the gesture a begin opens
OpenDrag(id) ==
  [NoDrag EXCEPT !.phase = "open", !.id = id, !.store = store,
                 !.done = Len(done), !.undone = Len(undone)]

\* a step of the editor: the gesture after it
Step(drag) == ghost' = [ghost EXCEPT !.op = "edit", !.drag = drag, !.said = "none"]

\* a step of the editor that may have told the user something
StepSaid(drag, said) == ghost' = [ghost EXCEPT !.op = "edit", !.drag = drag, !.said = said]

\* a pointer-down: id is the feature a drag has begun on, or NoId
StepDown(id) ==
  ghost' = [ghost EXCEPT !.op = "edit", !.said = "none",
                         !.drag = IF id # NoId THEN OpenDrag(id) ELSE NoDrag,
                         !.begun = IF id # NoId THEN Min2(@ + 1, MaxDrags) ELSE @]

\* PolygonDrawTool / PolylineDrawTool / PointDrawTool finish: stack.push(new AddFeatureCommand)
AddFeature(f) ==
  /\ store[f.id] = NoFeature
  /\ SetMachine(StackPush(Machine(World, done, undone), AddFeatureCommand(f)))
  /\ Step(NoDrag)
  /\ snapped' = NoSnap

\* the features the draw tools make here: the square and the polyline
DrawnFeatures == { f \in Catalogue : f.kind \in DrawKinds }

\* finish() of the tool that draws features of the kind of f: the tool pushes its
\* AddFeatureCommand when the outcome is "pushed", f being the feature made of the
\* points drawn; d is the state of the draw tools after the step
FinishStep(f, outcome, d) ==
  /\ outcome = "pushed" => store[f.id] = NoFeature
  /\ LET drawing == draw.tool[f.kind].state = "drawing"
         M == Machine(World, done, undone)
     IN \E m \in { IF drawing /\ outcome = "pushed" THEN StackPush(M, AddFeatureCommand(f))
                   ELSE M } :
          /\ SetWorldVars(m.W)
          /\ done' = m.done
          /\ undone' = m.undone
  /\ draw' = d
  /\ ghost' = [ghost EXCEPT !.op = "draw"]
  /\ snapped' = NoSnap

\* the Finish button: ToolController.finishDrawing()
FinishDrawing(f, outcome) ==
  /\ draw.currentDrawKind = f.kind
  /\ FinishStep(f, outcome,
                [ToolFinish(draw, f.kind, outcome) EXCEPT !.currentDrawKind = "none"])

\* RIGHT_CLICK on the map while a tool draws: the handler of the tool calls finish()
RightClickFinish(f, outcome) ==
  /\ draw.tool[f.kind].state = "drawing"
  /\ FinishStep(f, outcome, ToolFinish(draw, f.kind, outcome))

\* the buttons of the page that drive the draw tools, and the timers of the tools
NextLock ==
  \/ \E kind \in DrawKinds : StartDrawing(kind)
  \/ \E f \in DrawnFeatures : \E outcome \in FinishOutcomes(f.kind) : FinishDrawing(f, outcome)
  \/ \E f \in DrawnFeatures : \E outcome \in FinishOutcomes(f.kind) : RightClickFinish(f, outcome)
  \/ CancelDrawing
  \/ EscapeDrawing
  \/ \E kind \in DrawKinds : ToolSettles(kind)

SpecLock == Init /\ [][NextLock]_vars

\* LEFT_DOWN
LeftDown(pick) ==
  LET W1 == IF pick.type = "none" THEN [World EXCEPT !.edit = deselect(edit)]
            ELSE IF pick.type = "handle" THEN beginHandleDrag(World, pick.id, pick.index)
            ELSE select(World, pick.id)
      began == pick.type = "handle" /\ W1.edit.selectedId # NoId
  IN /\ SetWorld(W1)
     /\ StepDown(IF began THEN W1.edit.selectedId ELSE NoId)
     /\ snapped' = NoSnap
     /\ UNCHANGED <<done, undone>>

\* Shift + LEFT_DOWN: nothing happens unless pickFeatureId finds a feature
ShiftLeftDown(pick) ==
  /\ pick.type = "feature"
  /\ LET W1 == beginTranslate(World, pick.id, BodyAnchor(pick.id))
         began == W1.edit.selectedId # NoId
     IN /\ SetWorld(W1)
        /\ StepDown(IF began THEN W1.edit.selectedId ELSE NoId)
  /\ snapped' = NoSnap
  /\ UNCHANGED <<done, undone>>

\* MOUSE_MOVE with the pointer over world position cur: the world after it and the call
\* of snap() it made, if any
onMouseMove(W, cur) ==
  LET e == W.edit
      none == [hit |-> FALSE, world |-> cur, call |-> NoSnap]
      sv == IF e.snapEnabled
              THEN snapWithEngine(W.index, cur,
                     Query(e.selectedId, IF e.selectedKind = "point" THEN NoIndex ELSE e.dragIndex))
            ELSE none
      st == IF e.snapEnabled THEN snapWithEngine(W.index, cur, Query(e.selectedId, NoIndex))
            ELSE none
      delta == IF e.snapEnabled THEN SnappedDelta(st, e.dragStartAnchor)
               ELSE PosSub(cur, e.dragStartAnchor)
  IN IF e.dragMode = "vertex"
       THEN IF e.selectedId = NoId \/ e.selectedKind = "none" \/ e.dragIndex = NoIndex
              THEN [W |-> W, call |-> NoSnap]
            ELSE [ W |-> IF e.selectedKind = "point"
                           THEN applyPointMovePreview(W, SnappedPosition(sv))
                         ELSE applyVertexMovePreview(W, e.dragIndex, SnappedPosition(sv)),
                   call |-> sv.call ]
     ELSE IF e.dragMode = "translate"
       THEN IF e.selectedId = NoId \/ e.selectedKind = "none" \/ e.dragStartAnchor = NullPos
              THEN [W |-> W, call |-> NoSnap]
            ELSE [ W |-> IF e.selectedKind = "point"
                           THEN IF e.dragBeforePosition = NullPos THEN W
                                ELSE applyPointMovePreview(W, PosAdd(e.dragBeforePosition, delta))
                         ELSE IF e.dragBeforePositions = <<>> THEN W
                         ELSE applyPositionsPreview(W,
                                [k \in 1..Len(e.dragBeforePositions) |->
                                   PosAdd(e.dragBeforePositions[k], delta)]),
                   call |-> st.call ]
     ELSE [ W |-> W,
            call |-> IF e.snapEnabled /\ e.selectedId # NoId THEN st.call ELSE NoSnap ]

MouseMove(cur) ==
  \E r \in { onMouseMove(World, cur) } :
     /\ SetWorld(r.W)
     /\ snapped' = r.call
     /\ Step(IF ghost.drag.phase = "open"
               THEN [ghost.drag EXCEPT !.moves = Min2(@ + 1, 2),
                                       !.snaps = @ \/ r.call.path # "none"]
             ELSE NoDrag)
     /\ UNCHANGED <<done, undone>>

\* a pointer-up that drops the selection when it finds no drag
onLeftUpDeselects(M, checks) ==
  IF M.W.edit.dragMode = "none" \/ M.W.edit.selectedId = NoId \/ M.W.edit.selectedKind = "none"
    THEN [branch |-> "return", M |-> [M EXCEPT !.W.edit = deselect(M.W.edit)]]
  ELSE LeftUpHandler(M, checks)

\* LEFT_UP; the handler returns at once unless a drag is on and something is selected
onLeftUp(M, checks) ==
  IF M.W.edit.dragMode = "none" \/ M.W.edit.selectedId = NoId \/ M.W.edit.selectedKind = "none"
    THEN [branch |-> "return", M |-> M]
  ELSE LeftUpHandler(M, checks)

LeftUp ==
  \E checks \in BOOLEAN :
    LET r == onLeftUp(Machine(World, done, undone), checks)
        d == ghost.drag
        v == PreviewCheck(edit.selectedKind, edit.dragPreviewPositions,
                          edit.dragPreviewPosition, checks)
    IN /\ SetMachine(r.M)
       /\ StepSaid(IF edit.dragMode = "none" THEN [NoDrag EXCEPT !.phase = "idle"]
                   ELSE IF d.phase = "open" /\ r.branch \notin {"return", "nobefore", "nopreview"}
                     THEN [d EXCEPT !.phase = IF v = "ok" THEN "commit" ELSE "reject",
                                    !.committed = AfterFeature(d.id, d.store[d.id].kind,
                                                               edit.dragPreviewPositions,
                                                               edit.dragPreviewPosition)]
                   ELSE [NoDrag EXCEPT !.phase = "ended"],
                   IF r.branch = "reject" THEN "notice" ELSE "none")
       /\ snapped' = NoSnap

\* Ctrl + LEFT_DOWN with the pointer over world position cur and over the entity pick
CtrlLeftDown(cur, pick) ==
  \E ins \in { InsertionAt(World, cur) } : \E checks \in BOOLEAN :
    \E r \in { onCtrlLeftDown(Machine(World, done, undone), ins, pick, checks) } :
       /\ SetMachine(r.M)
       /\ StepSaid(IF edit.selectedId # NoId /\ edit.selectedKind \in {"polygon", "polyline"}
                     THEN [OpenDrag(edit.selectedId) EXCEPT !.phase = "insert"]
                   ELSE NoDrag,
                   r.said)
       /\ snapped' = r.call

\* keydown, Escape: deselect()
KeyEscape ==
  /\ SetWorld([World EXCEPT !.edit = deselect(edit)])
  /\ Step(NoDrag)
  /\ snapped' = NoSnap
  /\ UNCHANGED <<done, undone>>

\* keydown, Delete or Backspace
KeyDelete ==
  \E checks \in BOOLEAN :
    LET M == onDeleteKey(Machine(World, done, undone), checks)
    IN /\ edit.selectedId # NoId
       /\ SetMachine(M)
       /\ StepSaid(IF edit.activeHandleIndex # NoIndex
                     THEN [OpenDrag(edit.selectedId) EXCEPT !.phase = "delete"]
                   ELSE NoDrag,
                   IF edit.activeHandleIndex # NoIndex
                     THEN deleteActiveVertexSays(Machine(World, done, undone), checks)
                   ELSE "none")
       /\ snapped' = NoSnap

\* ToolController.undo()
Undo ==
  /\ done # <<>>
  /\ SetMachine(StackUndo(Machine(World, done, undone)))
  /\ Step(IF ghost.drag.phase = "commit"
                    THEN [ghost.drag EXCEPT !.phase = "undone"] ELSE NoDrag)
  /\ snapped' = NoSnap

\* ToolController.redo()
Redo ==
  /\ undone # <<>>
  /\ SetMachine(StackRedo(Machine(World, done, undone)))
  /\ Step(IF ghost.drag.phase = "undone"
                    THEN [ghost.drag EXCEPT !.phase = "redone"] ELSE NoDrag)
  /\ snapped' = NoSnap

\* setSnapEnabled(v), from the checkbox of the page
SetSnapEnabled(v) ==
  /\ edit.snapEnabled # v
  /\ edit' = [edit EXCEPT !.snapEnabled = v]
  /\ Step(NoDrag)
  /\ snapped' = NoSnap
  /\ UNCHANGED <<store, index, indexPoly, entity, done, undone, draw>>

\* the pointer and the Escape key alone, on a map of the square and the point
GestureFeatures == { f \in Catalogue : f.kind \in {"polygon", "point"} }

NextGesture ==
  \/ \E f \in GestureFeatures : AddFeature(f)
  \/ \E pick \in Picks : LeftDown(pick)
  \/ \E pick \in Picks : ShiftLeftDown(pick)
  \/ \E cur \in Cursors : MouseMove(cur)
  \/ KeyEscape

SpecGesture == Init /\ [][NextGesture]_vars

\* every event of the editor but Ctrl + LEFT_DOWN, while the stack has room
Next ==
  \/ \E f \in Catalogue :
       Cardinality(StoreIds(store)) < MaxFeatures /\ Len(done) < MaxCmds /\ AddFeature(f)
  \/ \E pick \in Picks : (pick.type = "handle" => ghost.begun < MaxDrags) /\ LeftDown(pick)
  \/ \E pick \in Picks : ghost.begun < MaxDrags /\ ShiftLeftDown(pick)
  \/ \E cur \in Cursors : MouseMove(cur)
  \/ LeftUp /\ Len(done') <= MaxCmds
  \/ KeyEscape
  \/ KeyDelete /\ Len(done') <= MaxCmds
  \/ Undo
  \/ Redo
  \/ \E v \in BOOLEAN : SetSnapEnabled(v)

Spec == Init /\ [][Next]_vars

\* insertion and deletion of vertices, on a map of the square, the polyline and a point
\* next to the lower edge of the square
VertexFeatures ==
  { Feature("P", "polygon", SquareP),
    Feature("L", "polyline", LineL),
    Feature("T", "point", <<Pt(10, 0 - 6)>>) }

\* world positions under the pointer of a Ctrl + LEFT_DOWN: off the middle of the lower
\* edge of the square, off the first segment of the polyline, and off the corner of the
\* square at vertex 0
InsertCursors == { Pt(10, 0 - 2), Pt(62, 10), Pt(0 - 2, 0 - 2) }

\* features on the map at once, where vertices are inserted and deleted
MaxVertexFeatures == 2

\* a plain pointer-down selects or deselects here; a handle is made the active one by a
\* Ctrl + LEFT_DOWN on it
NextVertex ==
  \/ \E f \in VertexFeatures :
       /\ Cardinality(StoreIds(store)) < MaxVertexFeatures
       /\ Len(done) < MaxVertexCmds
       /\ AddFeature(f)
  \/ \E pick \in Picks : pick.type # "handle" /\ LeftDown(pick)
  \/ \E cur \in InsertCursors, pick \in Picks :
       CtrlLeftDown(cur, pick) /\ Len(done') <= MaxVertexCmds
  \/ KeyDelete /\ Len(done') <= MaxVertexCmds

SpecVertex == Init /\ [][NextVertex]_vars

-----------------------------------------------------------------------------
(* Index and store, C6 and C7 *)

QueryIds(res) ==
  { v.featureId : v \in res.vertices } \cup { e.featureId : e \in res.edges }
QueryListIds(res) == QueryIds([vertices |-> Range(res.vertices), edges |-> Range(res.edges)])

\* no query of either index returns an entry of a feature the store does not hold
NoLeak ==
  \A p \in QueryPoints, r \in QueryRadii :
    /\ QueryListIds(IndexQuery(index, p, r)) \subseteq StoreIds(store)
    /\ QueryIds(PolyIndexQuery(indexPoly, p, r)) \subseteq StoreIds(store)

\* C6, as claimed: after any sequence of upsert, remove and clear calls on the store, a
\* query by point and radius returns no vertex or edge of a feature id that is not in
\* the store.
C6_NoLeakAfterAnyCalls == NoLeak

\* C6, amended: the same after any sequence of upsert, remove and clear calls that emit
\* their event, that is none of which changed the map with { silent: true }.
C6_NoLeakAfterEmittingCalls == ~ghost.silentCalls => NoLeak

\* a feature that was in the store has just been removed, with its event, while the
\* index still answers for another one
C6_Witness ==
  /\ ~ghost.silentCalls
  /\ ghost.op = "remove" /\ ghost.had /\ ghost.id = "P"
  /\ store["L"] # NoFeature
  /\ QueryListIds(IndexQuery(index, Pt(60, 20), ThresholdPx * MetersPerPixel)) = {"L"}

\* what either index holds for an id, in its cells and in its per-feature lists
HeldVertices(ix, id) == { v \in ix.vcells \cup ix.vby[id] : v.featureId = id }
HeldEdges(ix, id) == { e \in ix.ecells \cup ix.eby[id] : e.featureId = id }

\* C7: when an upsert of the store for id X returns (its event emitted), what an index
\* holds for X is derived from the feature just upserted: the all-kinds index holds
\* exactly its vertices and edges, and the polygon-only index holds no vertex or edge
\* that is not one of them, so nothing of X's earlier geometry or kind.
C7_NoStaleEntriesAfterUpsert ==
  (ghost.op = "upsert" /\ ~ghost.silent) =>
    /\ HeldVertices(index, ghost.id) = VerticesOf(ghost.arg)
    /\ HeldEdges(index, ghost.id) = EdgesOf(ghost.arg)
    /\ HeldVertices(indexPoly, ghost.id) \subseteq VerticesOf(ghost.arg)
    /\ HeldEdges(indexPoly, ghost.id) \subseteq EdgesOf(ghost.arg)

-----------------------------------------------------------------------------
(* Snap exclusion, C9 *)

\* C9: a snap query with excludeOwnerId = X and no excludeIndex returns no vertex,
\* midpoint or edge candidate whose ownerId is X, on the index path and on the fallback
\* path; nor is any such candidate among those the result is chosen from.
C9_OwnerExcluded ==
  (snapped.path \in {"index", "fallback"}
     /\ snapped.query.excludeOwnerId # NoId /\ snapped.query.excludeIndex = NoIndex) =>
    /\ snapped.result.ownerId # snapped.query.excludeOwnerId
    /\ \A k \in 1..Len(snapped.candidates) :
         snapped.candidates[k].ownerId # snapped.query.excludeOwnerId

\* X has a vertex, a midpoint and an edge within the threshold of the cursor and the
\* query that excludes X returns a candidate of another owner: it has happened on the
\* index path, and the last call is one on the fallback path
C9_Witness ==
  /\ ghost.indexExcluded
  /\ snapped.path = "fallback"
  /\ OwnerLeftOut(snapped, EntityId["P"])
  /\ snapped.result.ownerId = EntityId["L"]

-----------------------------------------------------------------------------
(* Priority among near candidates, C10 *)

\* candidates i and j of the last call are of different types and within 0.75 px of each
\* other, and no other candidate is closer to the cursor than either
TwoClosest(i, j) ==
  LET cs == snapped.candidates
  IN /\ i # j
     /\ cs[i].type # cs[j].type
     /\ Abs(cs[i].distancePx - cs[j].distancePx) < NearTol
     /\ \A k \in 1..Len(cs) \ {i, j} :
          cs[k].distancePx >= Max2(cs[i].distancePx, cs[j].distancePx)

\* of candidates i and j, i has the higher priority and is what the call returned
HigherReturned(i, j) ==
  LET cs == snapped.candidates
  IN cs[i].priority > cs[j].priority =>
       /\ snapped.result.type = cs[i].type
       /\ snapped.result.distancePx = cs[i].distancePx

\* C10, as claimed: when two candidates of different types are within 0.75 px of each
\* other and are the two closest to the cursor, the one of the higher priority is
\* returned, whichever was pushed first.
C10_HigherPriorityOfTwoClosest ==
  snapped.path = "resolve" =>
    \A i, j \in 1..Len(snapped.candidates) : TwoClosest(i, j) => HigherReturned(i, j)

\* C10, amended: the same when no candidate of a priority higher than both lies within
\* 0.75 px of the closest distance.
C10_HigherPriorityOfTwoClosestInBand ==
  snapped.path = "resolve" =>
    \A i, j \in 1..Len(snapped.candidates) :
      LET cs == snapped.candidates
          inBand(k) == cs[k].distancePx - Min2(cs[i].distancePx, cs[j].distancePx) < NearTol
      IN (/\ TwoClosest(i, j)
          /\ \A k \in 1..Len(cs) :
               inBand(k) => cs[k].priority <= Max2(cs[i].priority, cs[j].priority))
         => HigherReturned(i, j)

\* the edge was pushed first and is the closer by half a pixel; the vertex is returned
C10_Witness ==
  /\ snapped.path = "resolve"
  /\ Len(snapped.candidates) = 2
  /\ snapped.candidates[1].type = "edge" /\ snapped.candidates[1].distancePx = 5 * SubPx
  /\ snapped.candidates[2].type = "vertex" /\ snapped.candidates[2].distancePx = 5 * SubPx + 2
  /\ TwoClosest(1, 2)
  /\ snapped.result = snapped.candidates[2]

-----------------------------------------------------------------------------
(* Drag transactions, C1 to C3: a drag is a pointer-down that begins it, pointer moves, *)
(* and the pointer-up; what other events do in between is not their subject            *)

\* C1: when the pointer-up of a vertex or translate drag finds the preview invalid, the
\* store is what it was when the drag began, and the undo and redo stacks have the sizes
\* they had then.
C1_InvalidDragLeavesStoreAndStacks ==
  ghost.drag.phase = "reject" =>
    /\ store = ghost.drag.store
    /\ Len(done) = ghost.drag.done
    /\ Len(undone) = ghost.drag.undone

\* a drag of the square has just been rejected for a preview that crosses itself
C1_Witness ==
  /\ ghost.drag.phase = "reject"
  /\ ghost.drag.moves > 0
  /\ validatePolygonPositions(ghost.drag.committed.pos, TRUE) = "SELF_INTERSECTION"
  /\ store[ghost.drag.id].pos = SquareP
  /\ edit.dragMode = "none"

\* C2: an undo() right after a drag that committed makes the edited feature what it was
\* when the drag began, and a redo() right after that makes it the feature with the last
\* preview of the drag as its geometry.
C2_UndoThenRedoAfterCommit ==
  /\ ghost.drag.phase = "undone" => store[ghost.drag.id] = ghost.drag.store[ghost.drag.id]
  /\ ghost.drag.phase = "redone" => store[ghost.drag.id] = ghost.drag.committed

\* commit, undo and redo have followed one another, and the drag had moved the feature
C2_Witness ==
  /\ ghost.drag.phase = "redone"
  /\ ghost.drag.committed # ghost.drag.store[ghost.drag.id]
  /\ undone = <<>>

\* C3: a drag that ends with a valid preview has pushed one command, which holds the
\* feature as it was at the begin and the feature with the last preview: the undo stack is
\* one longer than at the begin, whatever the number of pointer moves and snap() calls.
C3_ValidDragPushesOneCommand ==
  ghost.drag.phase = "commit" =>
    /\ Len(done) = ghost.drag.done + 1
    /\ Last(done) = UpdateFeatureCommand(ghost.drag.id, ghost.drag.store[ghost.drag.id],
                                         ghost.drag.committed)

\* a drag of several moves, some of which called snap(), has just committed
C3_Witness ==
  /\ ghost.drag.phase = "commit"
  /\ ghost.drag.moves >= 2
  /\ ghost.drag.snaps
  /\ ghost.drag.committed # ghost.drag.store[ghost.drag.id]
  /\ store[ghost.drag.id] = ghost.drag.committed

-----------------------------------------------------------------------------
(* Cancel and re-entry, C4 and C5 *)

\* C4: an Escape key press while a vertex or translate drag is active leaves the store
\* holding the before snapshot of the edited feature, pushes no command, and leaves the
\* tool idle (dragMode none).
C4_EscapeCancelsDrag ==
  [][ (edit.dragMode # "none" /\ edit.dragBeforeFeature # NoFeature /\ KeyEscape) =>
        /\ edit'.dragMode = "none"
        /\ store'[edit.dragBeforeFeature.id] = edit.dragBeforeFeature
        /\ done' = done
        /\ undone' = undone ]_vars

\* the fields of the drag transaction: mode, owner, index, before snapshot, anchor, preview
DragFields ==
  << edit.dragMode, edit.selectedId, edit.dragIndex, edit.dragBeforeFeature,
     edit.dragBeforePositions, edit.dragBeforePosition, edit.dragStartAnchor,
     edit.dragPreviewPositions, edit.dragPreviewPosition >>

\* a pointer-down on a handle, or a shift-pointer-down on the body of the selected feature
DragBeginEvent ==
  \E pick \in Picks :
    \/ pick.type = "handle" /\ LeftDown(pick)
    \/ pick.type = "feature" /\ pick.id = edit.selectedId /\ ShiftLeftDown(pick)

\* C5: a drag-begin event received while a drag is active is ignored: drag mode, owner
\* feature, dragged index, before snapshot, drag anchor and preview keep their values.
C5_ReentrantBeginIgnored ==
  [][ (edit.dragMode # "none" /\ edit.selectedId # NoId /\ DragBeginEvent) =>
        DragFields' = DragFields ]_vars

-----------------------------------------------------------------------------
(* Snapping of a dragged vertex, C8 *)

\* the last snap() call is the one a pointer move made for vertex i of polygon P in drag
DraggedVertexCall(P, i) ==
  /\ snapped.path = "index"
  /\ edit.dragMode = "vertex" /\ edit.selectedKind = "polygon"
  /\ edit.selectedId = P /\ edit.dragIndex = i /\ i # NoIndex
  /\ store[P] # NoFeature /\ store[P].kind = "polygon"
  /\ snapped.query = Query(P, i)

IsVertexOf(c, P, i) == c.type = "vertex" /\ c.ownerId = P /\ c.index = i

\* neither the result nor a candidate it is chosen from is the vertex in drag
DraggedVertexLeftOut(P, i) ==
  /\ ~IsVertexOf(snapped.result, P, i)
  /\ \A k \in 1..Len(snapped.candidates) : ~IsVertexOf(snapped.candidates[k], P, i)

\* vertex j of P is within the threshold of the cursor and no candidate is closer
NoCloserThanVertex(P, j) ==
  LET d == ScreenDist(store[P].pos[j + 1], snapped.cursor)
  IN /\ d # Far
     /\ \A k \in 1..Len(snapped.candidates) : snapped.candidates[k].distancePx >= d

\* no vertex candidate of another feature is exactly as far from the cursor as vertex j
NoOtherVertexAsClose(P, j) ==
  LET d == ScreenDist(store[P].pos[j + 1], snapped.cursor)
  IN \A k \in 1..Len(snapped.candidates) :
       LET c == snapped.candidates[k]
       IN (c.type = "vertex" /\ c.distancePx = d) => IsVertexOf(c, P, j)

-----------------------------------------------------------------------------
(* Distance first, C11 *)

\* the least distancePx among the candidates of the last call
MinDistance ==
  LET cs == snapped.candidates
  IN cs[CHOOSE i \in 1..Len(cs) : \A k \in 1..Len(cs) : cs[i].distancePx <= cs[k].distancePx].distancePx

\* C11: the candidate snap() returns is less than 0.75 px farther from the cursor than
\* the closest of all candidates, and when no other candidate lies within 0.75 px of the
\* closest one, the closest candidate is returned, whatever its priority.
C11_DistanceFirst ==
  (snapped.path = "resolve" /\ snapped.candidates # <<>>) =>
    LET cs == snapped.candidates
    IN /\ snapped.result.type # "none"
       /\ snapped.result.distancePx < MinDistance + NearTol
       /\ \A i \in 1..Len(cs) :
            (\A k \in 1..Len(cs) \ {i} : cs[k].distancePx - cs[i].distancePx >= NearTol)
              => snapped.result = cs[i]

\* the closest candidate is a grid point, a vertex and a midpoint lie 0.75 px and 1.5 px
\* farther, and the grid point is returned
C11_Witness ==
  /\ snapped.path = "resolve"
  /\ Len(snapped.candidates) = 3
  /\ \E i, j, k \in 1..3 :
       /\ snapped.candidates[i].type = "grid" /\ snapped.candidates[i].distancePx = 5 * SubPx
       /\ snapped.candidates[j].type = "vertex"
       /\ snapped.candidates[j].distancePx = 5 * SubPx + NearTol
       /\ snapped.candidates[k].type = "midpoint"
       /\ snapped.candidates[k].distancePx = 6 * SubPx + 2
       /\ snapped.result = snapped.candidates[i]

-----------------------------------------------------------------------------
(* Insertion and deletion of vertices, C12 and C13 *)

\* the feature the last insertion or deletion was tried on, as it was before
EditedBefore == ghost.drag.store[ghost.drag.id]

\* a polygon of exactly 3 vertices or a polyline of exactly 2 points
AtMinimum(f) ==
  \/ f.kind = "polygon" /\ Len(f.pos) = 3
  \/ f.kind = "polyline" /\ Len(f.pos) = 2

\* the store and both stacks are what they were before the last insertion or deletion
EditLeftNoTrace ==
  /\ store = ghost.drag.store
  /\ Len(done) = ghost.drag.done
  /\ Len(undone) = ghost.drag.undone

\* C12: deleteActiveVertex on a polygon of exactly 3 vertices, or on a polyline of exactly
\* 2 points, is rejected: the feature in the store is unchanged and no command is pushed.
C12_DeleteAtMinimumRejected ==
  (ghost.drag.phase = "delete" /\ AtMinimum(EditedBefore)) => EditLeftNoTrace

\* the square has lost a vertex to an earlier deletion, and the deletion of one of the
\* three left has just been refused
C12_Witness ==
  /\ ghost.drag.phase = "delete"
  /\ EditedBefore.kind = "polygon" /\ Len(EditedBefore.pos) = 3
  /\ Len(done) = 2
  /\ Last(done).type = "UpdateFeature" /\ Len(Last(done).before.pos) = 4
  /\ store[ghost.drag.id] = EditedBefore

\* validatePolygonPositions / validatePolylinePositions find nothing wrong with a feature
Validates(f) ==
  IF f.kind = "polygon" THEN validatePolygonPositions(f.pos, FALSE) = "ok"
  ELSE validatePolylinePositions(f.pos) = "ok"

\* C13: each insertion of a vertex (Ctrl + LEFT_DOWN on an edge) and each deletion either
\* pushes exactly one command, whose result passes validation and is what the store then
\* holds, or pushes nothing and leaves the store unchanged.
C13_OneValidCommandOrNothing ==
  ghost.drag.phase \in {"insert", "delete"} =>
    \/ EditLeftNoTrace
    \/ /\ Len(done) = ghost.drag.done + 1
       /\ Last(done) = UpdateFeatureCommand(ghost.drag.id, EditedBefore, store[ghost.drag.id])
       /\ store = [ghost.drag.store EXCEPT ![ghost.drag.id] = store[ghost.drag.id]]
       /\ Validates(store[ghost.drag.id])

-----------------------------------------------------------------------------
(* The CommandStack, C14 *)

\* the store after one do() of command c
StoreAfterDo(c) == CmdDo(World, c).W.store

\* the store after one undo() of command c
StoreAfterUndo(c) == CmdUndo(World, c).store

\* command c after one do(): a RemoveFeatureCommand keeps the feature its do() removed
AfterDo(c) == CmdDo(World, c).cmd

\* a step in which some client pushes a command
PushEvent ==
  \/ \E f \in Catalogue : AddFeature(f)
  \/ LeftUp /\ done' # done
  \/ KeyDelete /\ done' # done

\* C14: push(cmd) runs cmd.do() once, makes cmd the top of the undo list and empties the
\* redo list; undo() runs undo() of the command done last and moves it to the redo list;
\* redo() runs do() of the command undone last and moves it back to the undo list.
C14_PushUndoRedo ==
  [][ /\ PushEvent =>
           /\ Front(done') = done /\ Len(done') = Len(done) + 1
           /\ undone' = <<>>
           /\ store' = StoreAfterDo(Last(done'))
      /\ Undo =>
           /\ done' = Front(done)
           /\ undone' = Append(undone, Last(done))
           /\ store' = StoreAfterUndo(Last(done))
      /\ Redo =>
           /\ done' = Append(done, AfterDo(Last(undone)))
           /\ undone' = Front(undone)
           /\ store' = StoreAfterDo(Last(undone)) ]_vars

\* a feature was added, a drag on it committed, the commit undone and then redone
C14_Witness ==
  /\ ghost.drag.phase = "redone"
  /\ Len(done) = 2 /\ undone = <<>>
  /\ done[1].type = "AddFeature"
  /\ done[2] = UpdateFeatureCommand(ghost.drag.id, ghost.drag.store[ghost.drag.id],
                                    ghost.drag.committed)
  /\ store[ghost.drag.id] = done[2].after

-----------------------------------------------------------------------------
(* The stack and the store during a drag, C15 *)

\* C15: while a drag is active (dragMode is "vertex" or "translate") an undo, a redo or
\* a press of Delete / Backspace changes neither the undo and redo stacks nor the store.
C15_NoStackUseDuringDrag ==
  [][ (edit.dragMode # "none" /\ (Undo \/ Redo \/ KeyDelete)) =>
        UNCHANGED <<store, done, undone>> ]_vars

-----------------------------------------------------------------------------
(* The end of a drag, C16 *)

\* the tool is idle and holds nothing of a drag
DragCleared ==
  /\ edit.dragMode = "none"
  /\ edit.dragIndex = NoIndex
  /\ edit.dragBeforeFeature = NoFeature
  /\ edit.dragBeforePositions = <<>> /\ edit.dragBeforePosition = NullPos
  /\ edit.dragStartAnchor = NullPos
  /\ edit.dragPreviewPositions = <<>> /\ edit.dragPreviewPosition = NullPos

\* C16: after the pointer-up that follows a drag-begin the tool is idle (dragMode "none")
\* and the dragged index, the before snapshot, the anchor and the preview are cleared,
\* whatever happened between the begin and the pointer-up.
C16_PointerUpEndsDrag ==
  [][ (edit.dragMode # "none" /\ LeftUp) => DragCleared' ]_vars

-----------------------------------------------------------------------------
(* A pointer-up with no drag, C17 *)

\* C17: a pointer-up received while no drag is active (dragMode "none") changes nothing:
\* the store, the undo and redo stacks, the selection and the camera flags stay as they are.
C17_IdlePointerUpIsNoOp ==
  [][ (edit.dragMode = "none" /\ LeftUp) =>
        /\ UNCHANGED <<store, done, undone>>
        /\ edit' = edit ]_vars

\* a pointer-up has found no drag, with a feature selected and a command on the stack
C17_Witness ==
  /\ ghost.drag.phase = "idle"
  /\ edit.dragMode = "none"
  /\ edit.selectedId # NoId
  /\ done # <<>>

-----------------------------------------------------------------------------
(* The camera during a drag, C18 *)

\* C18: the edit tool holds the camera disabled exactly while a drag is active: the
\* camera flags are off in every state with dragMode "vertex" or "translate" and on in
\* every state with dragMode "none".
C18_CameraLockedExactlyInDrag ==
  edit.cameraEnabled <=> edit.dragMode = "none"

\* a drag has been begun, moved and committed, and the camera is free again
C18_Witness ==
  /\ ghost.drag.phase = "commit"
  /\ ghost.drag.moves > 0
  /\ edit.dragMode = "none"
  /\ edit.cameraEnabled

-----------------------------------------------------------------------------
(* The preview of a dragged vertex, C19 *)

\* the last step was a pointer move of a vertex drag that called snap() and wrote a preview
VertexDragMove ==
  /\ edit.dragMode = "vertex" /\ edit.selectedId # NoId /\ edit.dragIndex # NoIndex
  /\ snapped.path # "none"
  /\ \/ edit.selectedKind = "point" /\ edit.dragPreviewPosition # NullPos
     \/ edit.selectedKind \in {"polygon", "polyline"}
          /\ edit.dragIndex < Len(edit.dragPreviewPositions)

\* the previewed position of the vertex in drag
DraggedPreview ==
  IF edit.selectedKind = "point" THEN edit.dragPreviewPosition
  ELSE edit.dragPreviewPositions[edit.dragIndex + 1]

\* C19: during a vertex drag, when snap() returns a candidate the previewed position of
\* the dragged vertex is that candidate's position; when it returns none, the previewed
\* position is the picked position of the pointer.
C19_PreviewAtCandidate ==
  VertexDragMove =>
    DraggedPreview = IF snapped.result.type # "none" THEN snapped.result.position
                     ELSE snapped.cursor

-----------------------------------------------------------------------------
(* The preview of a translate drag, C20 *)

\* the last step was a pointer move of a translate drag, begun on the selected feature
\* and followed by nothing but pointer moves, that called snap()
TranslateMove ==
  /\ ghost.drag.phase = "open" /\ ghost.drag.moves > 0
  /\ edit.dragMode = "translate" /\ edit.selectedId = ghost.drag.id
  /\ snapped.path # "none"

\* the position the last move snapped the pointer to
SnappedCursor ==
  IF snapped.result.type # "none" THEN snapped.result.position ELSE snapped.cursor

\* C20: during a translate drag, after every pointer move the preview has as many
\* vertices as the before snapshot, and vertex k of the preview is before[k] +
\* (snappedCursor - anchor), with the before snapshot and the anchor of the drag begin.
C20_PreviewIsBeforePlusDelta ==
  TranslateMove =>
    LET delta == PosSub(SnappedCursor, edit.dragStartAnchor)
    IN IF edit.selectedKind = "point"
         THEN edit.dragPreviewPosition = PosAdd(edit.dragBeforePosition, delta)
       ELSE /\ Len(edit.dragPreviewPositions) = Len(edit.dragBeforePositions)
            /\ \A k \in 1..Len(edit.dragBeforePositions) :
                 edit.dragPreviewPositions[k] = PosAdd(edit.dragBeforePositions[k], delta)

-----------------------------------------------------------------------------
(* The configuration of the engine, C21 *)

\* the last step was a call of snap()
SnapCalled == snapped.path \in {"index", "fallback"}

\* C21: snap() returns a candidate of type grid only if the grid source and the grid type
\* are both enabled, and a candidate of type vertex, midpoint or edge only if that type and
\* the geometry source are enabled; under the default configuration it returns no grid
\* candidate.
C21_ResultTypeEnabled ==
  SnapCalled =>
    LET t == snapped.result.type
    IN /\ t = "grid" => (edit.snapSources.grid /\ edit.snapTypes.grid)
       /\ t \in {"vertex", "midpoint", "edge"} =>
            (edit.snapTypes[t] /\ edit.snapSources.polygons)
       /\ (edit.snapTypes = defaultSnapTypes /\ edit.snapSources = defaultSnapSources) =>
            t # "grid"

\* the grid point is returned next to the square's vertex 1, whose type is switched off
C21_Witness ==
  /\ SnapCalled
  /\ snapped.result.type = "grid"
  /\ edit.snapSources.polygons /\ ~edit.snapTypes.vertex
  /\ \E k \in 1..Len(IndexCandidates(index, snapped.cursor, snapped.query)) :
       IndexCandidates(index, snapped.cursor, snapped.query)[k].type = "vertex"

-----------------------------------------------------------------------------
(* snap() without a result, C22 *)

\* the preview of a translate drag is the before snapshot moved by target - anchor
TranslatedTo(target) ==
  LET delta == PosSub(target, edit.dragStartAnchor)
  IN IF edit.selectedKind = "point"
       THEN edit.dragPreviewPosition = PosAdd(edit.dragBeforePosition, delta)
     ELSE /\ Len(edit.dragPreviewPositions) = Len(edit.dragBeforePositions)
          /\ \A k \in 1..Len(edit.dragBeforePositions) :
               edit.dragPreviewPositions[k] = PosAdd(edit.dragBeforePositions[k], delta)

\* C22: snap() returns no result exactly when no candidate passed the threshold test, and
\* then the edit tool previews the picked position of the pointer as it is: the dragged
\* vertex is put there, a translated feature is moved by that position minus the anchor.
C22_NoResultMeansRawPosition ==
  snapped.path # "none" =>
    /\ snapped.result.type = "none" <=> snapped.candidates = <<>>
    /\ (snapped.result.type = "none" /\ VertexDragMove) => DraggedPreview = snapped.cursor
    /\ (snapped.result.type = "none" /\ TranslateMove) => TranslatedTo(snapped.cursor)

\* a vertex of the square is dragged to a place with nothing to snap to
C22_Witness ==
  /\ VertexDragMove
  /\ snapped.path = "index"
  /\ snapped.candidates = <<>> /\ snapped.result.type = "none"
  /\ DraggedPreview = snapped.cursor
  /\ DraggedPreview # ghost.drag.store[ghost.drag.id].pos[edit.dragIndex + 1]

-----------------------------------------------------------------------------
(* The geometry an edit writes, C23 *)

\* the validity rules of a feature's kind: finite coordinates; for a polygon at least 3
\* vertices, no two adjacent vertices equal, no self-intersection; for a polyline at least
\* 2 points, no two consecutive points equal
SatisfiesRules(f) ==
  /\ \A k \in 1..Len(f.pos) : IsReal(f.pos[k])
  /\ IF f.kind = "point" THEN validatePointPosition(f.pos[1]) = "ok" ELSE Validates(f)

\* C23: the geometry a successful edit (a drag commit, a vertex insertion, a vertex
\* deletion) has written to the store satisfies the validity rules of its kind.
C23_WrittenGeometryValid ==
  (ghost.drag.phase \in {"commit", "insert", "delete"} /\ Len(done) = ghost.drag.done + 1) =>
    SatisfiesRules(store[ghost.drag.id])

-----------------------------------------------------------------------------
(* The priority of picked entities, C24 *)

\* the last step was a call of PickResolver.resolve
PickResolved == snapped.path = "pick"

\* polyline over polygon over point
KindRank(kind) == IF kind = "polyline" THEN 3 ELSE IF kind = "polygon" THEN 2 ELSE 1

\* the picked entities hold a hit of this description
PickedSome(Test(_)) ==
  \E k \in 1..Len(snapped.picked) : Test(snapped.picked[k])

IsHandle(h) == h.type = "handle"
IsSelectedBody(h) == h.type = "feature" /\ snapped.selectedId # NoId /\ h.featureId = snapped.selectedId
IsBody(h) == h.type = "feature"

\* C24: PickResolver.resolve returns a handle whenever a handle is among the picked
\* entities; otherwise the body of the selected feature whenever that is among them;
\* otherwise a body of another feature, of the kind that ranks highest among those picked
\* (polyline over polygon over point); and nothing when nothing of these is picked.
C24_HandleThenSelectedThenOthers ==
  PickResolved =>
    LET r == snapped.result
    IN IF PickedSome(IsHandle) THEN IsHandle(r) /\ PickedSome(LAMBDA h : h = r)
       ELSE IF PickedSome(IsSelectedBody) THEN IsSelectedBody(r)
       ELSE IF PickedSome(IsBody)
         THEN /\ IsBody(r) /\ PickedSome(LAMBDA h : h = r)
              /\ \A k \in 1..Len(snapped.picked) :
                   IsBody(snapped.picked[k]) => KindRank(r.kind) >= KindRank(snapped.picked[k].kind)
       ELSE r = NoHit

\* the selected polygon is returned although a polyline, which ranks higher, was picked first
C24_Witness ==
  /\ PickResolved
  /\ snapped.selectedId = "P"
  /\ Len(snapped.picked) = 3
  /\ snapped.picked[1] = FeatureHit("L", "polyline")
  /\ snapped.picked[2] = FeatureHit("T", "point")
  /\ snapped.picked[3] = FeatureHit("P", "polygon")
  /\ snapped.result = FeatureHit("P", "polygon")

-----------------------------------------------------------------------------
(* After a rejection, C25 *)

\* the step told the user of a rejected edit
RejectedStep == ghost'.op = "edit" /\ ghost'.said # "none"

\* a pointer-down on some handle of the selected feature begins a vertex drag
DragCanBegin ==
  /\ edit.selectedId # NoId
  /\ \E k \in 1..Len(edit.handles) :
       /\ edit.handles[k].ownerId = edit.selectedId
       /\ beginHandleDrag(World, edit.selectedId, edit.handles[k].index).edit.dragMode = "vertex"

\* C25: after an edit is rejected (a drag commit that fails validation, a rejected
\* insertion, a rejected deletion) the selected feature id and kind are the ones of before,
\* no drag is on, and a drag on the same feature can begin at once.
C25_SessionUsableAfterRejection ==
  [][ RejectedStep =>
        /\ edit'.selectedId = edit.selectedId
        /\ edit'.selectedKind = edit.selectedKind
        /\ edit'.dragMode = "none"
        /\ DragCanBegin' ]_vars

\* the same for the rejections of a pointer-up and of a deletion
C25_AfterRejectedCommitOrDeletion ==
  [][ RejectedStep /\ ghost'.drag.phase # "insert" =>
        /\ edit'.selectedId = edit.selectedId
        /\ edit'.selectedKind = edit.selectedKind
        /\ edit'.dragMode = "none"
        /\ DragCanBegin' ]_vars

-----------------------------------------------------------------------------
(* Rejections reach the notice sink, C26 *)

\* validation finds the preview of the drag invalid, with and without Cesium's checks
PreviewInvalid ==
  \A checks \in BOOLEAN :
    PreviewCheck(edit.selectedKind, edit.dragPreviewPositions, edit.dragPreviewPosition,
                 checks) = "invalid"

\* the step is a pointer-up that ends a drag whose preview is invalid
CommitRejected ==
  /\ ghost'.op = "edit" /\ ghost'.drag.phase = "reject"
  /\ edit.dragMode # "none" /\ edit.selectedId # NoId /\ edit.dragBeforeFeature # NoFeature
  /\ PreviewInvalid

\* the step is a Delete on the active handle of a feature of real positions, and no
\* command came of it
DeletionRejected ==
  /\ ghost'.op = "edit" /\ ghost'.drag.phase = "delete"
  /\ done' = done
  /\ edit.selectedId # NoId /\ edit.activeHandleIndex # NoIndex
  /\ edit.selectedKind \in {"polygon", "polyline"}
  /\ getKind(store, edit.selectedId, edit.selectedKind) # NoFeature
  /\ \A k \in 1..Len(store[edit.selectedId].pos) : IsReal(store[edit.selectedId].pos[k])

\* the insertion a Ctrl + LEFT_DOWN over cur computes is within reach of an edge, made of
\* the projected point, and invalid
InsertionInvalid(cur) ==
  /\ edit.selectedId # NoId /\ edit.selectedKind \in {"polygon", "polyline"}
  /\ getKind(store, edit.selectedId, edit.selectedKind) # NoFeature
  /\ LET ins == InsertionAt(World, cur)
         next == Spliced(clonePositions(store[edit.selectedId].pos), ins.insertIndex,
                         ins.projected)
     IN /\ ins.ok /\ ~ins.hit
        /\ \A checks \in BOOLEAN :
             (IF edit.selectedKind = "polygon" THEN validatePolygonPositions(next, checks)
              ELSE validatePolylinePositions(next)) \notin {"ok", "throw"}

\* the step is a Ctrl + LEFT_DOWN over some cur, known by the call of snap() it made,
\* whose insertion is invalid
InsertionRejected ==
  /\ ghost'.op = "edit" /\ ghost'.drag.phase = "insert" /\ snapped' # NoSnap
  /\ \E cur \in InsertCursors :
       /\ InsertionInvalid(cur)
       /\ snapped' = InsertionAt(World, cur).call

\* C26: every rejected edit (a drag commit that fails validation, a rejected insertion, a
\* rejected deletion, the one for the least count of vertices included) calls the notice
\* sink, opts.onNotice, with the reason.
C26_RejectionsReachNoticeSink ==
  [][ CommitRejected \/ InsertionRejected \/ DeletionRejected => ghost'.said = "notice" ]_vars

\* the same without the deletions
C26_CommitAndInsertionRejectionsNoticed ==
  [][ CommitRejected \/ InsertionRejected => ghost'.said = "notice" ]_vars

-----------------------------------------------------------------------------
(* What the index holds of a feature, C27 *)

\* the feature of the last upsert, whose event the index has taken
IndexedFeature == ghost.arg

\* position k of the feature, counted from 0
PositionAt(f, k) == f.pos[k + 1]

\* the index holds exactly one vertex for each position of f, and no other vertex of it
HoldsVerticesOf(ix, f) ==
  /\ Cardinality(HeldVertices(ix, f.id)) = Len(f.pos)
  /\ \A k \in 0..(Len(f.pos) - 1) :
       \E v \in HeldVertices(ix, f.id) : v.vertexIndex = k /\ v.position = PositionAt(f, k)

\* the index holds count edges of f, edge k joining position k to position (k + 1) mod n
HoldsEdgesOf(ix, f, count) ==
  /\ Cardinality(HeldEdges(ix, f.id)) = count
  /\ \A k \in 0..(count - 1) :
       \E e \in HeldEdges(ix, f.id) :
         /\ e.edgeStartIndex = k
         /\ e.a = PositionAt(f, k)
         /\ e.b = PositionAt(f, (k + 1) % Len(f.pos))

\* C27: for a feature with n positions the spatial index holds n vertices, and n edges
\* for a polygon, edge k joining position k to position (k+1) mod n; n-1 edges for a
\* polyline, none of them joining the last position to the first; no edges for a point.
C27_VerticesAndEdgesHeld ==
  (ghost.op = "upsert" /\ ~ghost.silent) =>
    LET f == IndexedFeature
        n == Len(f.pos)
    IN /\ HoldsVerticesOf(index, f)
       /\ f.kind = "polygon" => HoldsEdgesOf(index, f, n)
       /\ f.kind = "polyline" =>
            /\ HoldsEdgesOf(index, f, n - 1)
            /\ ~\E e \in HeldEdges(index, f.id) :
                  e.a = PositionAt(f, n - 1) /\ e.b = PositionAt(f, 0)
       /\ f.kind = "point" => HeldEdges(index, f.id) = {}

\* the polyline of three points has been indexed where a polygon of that id was before
C27_Witness ==
  /\ ghost.op = "upsert" /\ ~ghost.silent /\ ghost.had
  /\ IndexedFeature = Feature("L", "polyline", LineL)
  /\ Cardinality(HeldEdges(index, "L")) = 2
  /\ Cardinality(HeldVertices(index, "L")) = 3
  /\ store["P"] # NoFeature

-----------------------------------------------------------------------------
(* The vertices a query returns, C28 *)

\* the last step was a query of the indexes
Queried == snapped.path = "query"

\* v is within r10 tenths of a length unit of p
WithinTenths(v, p, r10) ==
  IsReal(v.position) /\ IsReal(p) /\ 100 * Dist2(v.position, p) <= r10 * r10

\* the indexed vertices within max(0.1, radius) of p
VerticesWithin(ix, p, radius) ==
  { v \in ix.vcells : WithinTenths(v, p, IF 10 * radius < 1 THEN 1 ELSE 10 * radius) }

\* the indexed vertices within max(0, radius) of p
PolyVerticesWithin(ix, p, radius) ==
  { v \in ix.vcells : WithinTenths(v, p, IF radius < 0 THEN 0 ELSE 10 * radius) }

\* the cells of the polygon-only index hold one vertex and one edge for a key
\* featureId:index, so that seenV and seenE of its query skip nothing
PolyIndexKeysUnique ==
  /\ \A v, w \in indexPoly.vcells :
       (v.featureId = w.featureId /\ v.vertexIndex = w.vertexIndex) => v = w
  /\ \A e, g \in indexPoly.ecells :
       (e.featureId = g.featureId /\ e.edgeStartIndex = g.edgeStartIndex) => e = g

\* C28: the vertices FeatureSpatialIndex.query(point, radius) returns are exactly the
\* indexed vertices whose distance to the point is at most the clamped radius, in the
\* index of all kinds and in the index of polygons, each once: the cells enumerated miss
\* none within the radius, and none beyond it is returned.
C28_QueryVerticesExact ==
  Queried =>
    /\ Range(snapped.result.vertices) = VerticesWithin(index, snapped.cursor, snapped.radius)
    /\ Len(snapped.result.vertices)
         = Cardinality(VerticesWithin(index, snapped.cursor, snapped.radius))
    /\ snapped.polyResult.vertices
         = PolyVerticesWithin(indexPoly, snapped.cursor, snapped.radius)

\* a query from the cell of the square returns a vertex of the polyline, which is in the
\* next cell
C28_Witness ==
  /\ Queried /\ snapped.cursor = Pt(0, 0) /\ snapped.radius = 2 * CellSize
  /\ CellOf(Pt(60, 0), CellSize) # CellOf(Pt(0, 0), CellSize)
  /\ IndexedVertex("L", 0, Pt(60, 0)) \in Range(snapped.result.vertices)
  /\ IndexedVertex("P", 2, Pt(20, 20)) \in snapped.polyResult.vertices

-----------------------------------------------------------------------------
(* The edges a query returns, C29 *)

\* the distance of p to the segment of edge e is at most r10 tenths of a length unit
SegmentWithinTenths(e, p, r10) ==
  /\ IsReal(e.a) /\ IsReal(e.b) /\ IsReal(p)
  /\ LET d == SegmentDistance2(p, e.a, e.b)
     IN 100 * d.n <= r10 * r10 * d.m

\* the indexed edges whose segment is within the clamped radius of p
EdgesWithin(ix, p, r10) == { e \in ix.ecells : SegmentWithinTenths(e, p, r10) }

\* C29: every indexed edge whose point-to-segment distance from the query point is at
\* most the (clamped) radius is among the edges FeatureSpatialIndex.query returns, in the
\* index of all kinds and in the index of polygons.
C29_NoEdgeWithinRadiusDropped ==
  Queried =>
    LET p == snapped.cursor
        r == snapped.radius
    IN /\ EdgesWithin(index, p, IF 10 * r < 1 THEN 1 ELSE 10 * r)
            \subseteq Range(snapped.result.edges)
       /\ EdgesWithin(indexPoly, p, IF r < 0 THEN 0 ELSE 10 * r)
            \subseteq snapped.polyResult.edges

\* the same of the index of all kinds, for the radius of a snap query
C29_SnapRadiusDropsNoEdge ==
  (Queried /\ snapped.radius = ThresholdPx * MetersPerPixel) =>
    EdgesWithin(index, snapped.cursor, 10 * snapped.radius) \subseteq Range(snapped.result.edges)

-----------------------------------------------------------------------------
(* The camera flags under the lock, C30 *)

\* the draw tools that hold the closure of an acquisition they have not released
Unreleased == { k \in DrawKinds : draw.tool[k].releaseDrawLock }

\* C30: while any acquisition of the InteractionLock is unreleased the overrides stay
\* applied to the flags as they were at the first acquire, and once all acquisitions are
\* released, and only then, every flag has its value of the first acquire again.
C30_RestoredOnceAllReleased ==
  ~IsNoSnapshot(draw.first) =>
    IF Unreleased # {} THEN draw.camera = Assigned(draw.first, DrawOverrides)
    ELSE draw.camera = draw.first

\* the same for the states in which no acquisition is unreleased
C30_FlagsRestoredAfterLastRelease ==
  (~IsNoSnapshot(draw.first) /\ Unreleased = {}) => draw.camera = draw.first

-----------------------------------------------------------------------------
(* The Escape key on the page: the edit tool and ToolController, C31 *)

\* FeatureEditTool.cancel(), which ToolController calls and FeatureEditTool.ts does not
\* define. As the comment of ToolController has it ("cancel active edit transaction
\* (drag) or deselect"): a drag is rolled back to the snapshot it began with and the
\* selection is kept; with no drag the selection is dropped
cancel(W) ==
  LET e == W.edit
      W1 == [W EXCEPT !.edit = ResetDrag(e)]
      W2 == StoreUpsert(W1, e.dragBeforeFeature, FALSE)
  IN IF e.dragMode = "none" THEN [W EXCEPT !.edit = deselect(e)]
     ELSE IF e.dragBeforeFeature = NoFeature THEN W1
     ELSE [W2 EXCEPT !.edit = refreshHandles(W2.edit, W2.store)]

\* the isDrawing callback the page gives the edit tool: some draw tool is drawing
AnyDrawing == \E k \in DrawKinds : draw.tool[k].state = "drawing"

\* a step of the page on a key or a button of ToolController
SessionStep(op) == ghost' = [ghost EXCEPT !.op = op, !.drag = NoDrag, !.said = "none"]

\* keydown, Escape, on the window: the listener of the edit tool, registered first,
\* calls deselect(); then ToolController.onKeyDown cancels the drawing, or calls
\* edit.cancel()
Escape ==
  LET W1 == [World EXCEPT !.edit = deselect(edit)]
  IN /\ IF isDrawing(draw)
          THEN SetWorldVars(W1) /\ draw' = cancelDrawing(draw)
        ELSE SetWorldVars(cancel(W1)) /\ draw' = draw
     /\ SessionStep("escape")
     /\ snapped' = NoSnap
     /\ UNCHANGED <<done, undone>>

\* ToolController.startDrawing(kind), from a button of the page
StartDrawingInSession(kind) ==
  /\ SetWorldVars(cancel(World))
  /\ draw' = startDrawing(draw, kind)
  /\ SessionStep("draw")
  /\ snapped' = NoSnap
  /\ UNCHANGED <<done, undone>>

\* the square on the map, the pointer, the Escape key and the buttons that start and
\* cancel a drawing, while the stack has room; the pointer-down and pointer-move
\* handlers of the edit tool return at once while a tool draws
NextSession ==
  \/ AddFeature(Feature("P", "polygon", SquareP))
  \/ \E pick \in Picks :
       /\ ~AnyDrawing
       /\ pick.type = "handle" => ghost.begun < MaxDrags
       /\ LeftDown(pick)
  \/ \E cur \in Cursors : ~AnyDrawing /\ MouseMove(cur)
  \/ LeftUp /\ Len(done') <= MaxCmds
  \/ \E kind \in DrawKinds : StartDrawingInSession(kind)
  \/ CancelDrawing
  \/ Escape

SpecSession == Init /\ [][NextSession]_vars

\* C31: an Escape cancels the drawing and leaves the selection alone if a draw tool is
\* drawing; else, if a drag of the edit tool is on, it cancels the drag and keeps the
\* selection; else it drops the selection.
C31_EscapeOrder ==
  [][ghost'.op = "escape" =>
       IF isDrawing(draw)
         THEN ~isDrawing(draw') /\ edit'.selectedId = edit.selectedId
       ELSE IF edit.dragMode # "none"
         THEN edit'.dragMode = "none" /\ edit'.selectedId = edit.selectedId
       ELSE edit'.selectedId = NoId]_vars

\* the parts of the order the code keeps: the drawing is cancelled first and nothing
\* else of the tools is, and an Escape with no drawing leaves nothing selected
C31_DrawingFirstAndSelectionDropped ==
  [][ghost'.op = "escape" =>
       IF isDrawing(draw)
         THEN ~isDrawing(draw') /\ edit'.dragMode = edit.dragMode
       ELSE edit'.selectedId = NoId /\ draw' = draw]_vars

-----------------------------------------------------------------------------
(* The command of a drag commit, C32 *)

\* commands on the stack where selections and drags interleave: two features and a commit
MaxInterleaveCmds == 3

\* the square and the point on the map; selections, deselections, Escape, pointer-downs,
\* moves and pointer-ups in any order
NextInterleave ==
  \/ \E f \in GestureFeatures : AddFeature(f)
  \/ \E pick \in Picks : (pick.type = "handle" => ghost.begun < MaxDrags) /\ LeftDown(pick)
  \/ \E pick \in Picks : ghost.begun < MaxDrags /\ ShiftLeftDown(pick)
  \/ \E cur \in Cursors : MouseMove(cur)
  \/ LeftUp /\ Len(done') <= MaxInterleaveCmds
  \/ KeyEscape

SpecInterleave == Init /\ [][NextInterleave]_vars

\* command c updates feature id alone: both snapshots are of that feature, of one kind
\* and with as many positions
UpdatesOnly(c, id) ==
  /\ c.type = "UpdateFeature"
  /\ c.id = id /\ c.before.id = id /\ c.after.id = id
  /\ c.after.kind = c.before.kind
  /\ Len(c.after.pos) = Len(c.before.pos)

\* C32: the command a pointer-up pushes changes only the feature the drag began on: its
\* before and after snapshots are of that feature, and every other feature of the store
\* is as it was before the drag, whatever was selected, deselected and pressed between.
C32_CommitChangesDraggedFeatureOnly ==
  [][ (LeftUp /\ done' # done) =>
        /\ UpdatesOnly(Last(done'), edit.dragBeforeFeature.id)
        /\ \A j \in Ids \ {edit.dragBeforeFeature.id} : store'[j] = store[j] ]_vars

\* the same for the pointer-ups that find selected the feature the drag began on
C32_CommitOfUnchangedSelection ==
  [][ (LeftUp /\ done' # done /\ edit.selectedId = edit.dragBeforeFeature.id) =>
        /\ UpdatesOnly(Last(done'), edit.dragBeforeFeature.id)
        /\ \A j \in Ids \ {edit.dragBeforeFeature.id} : store'[j] = store[j] ]_vars

-----------------------------------------------------------------------------
(* The feature commands on the stack, C33 *)

\* commands pushed on the stack by clients of any kind
MaxPushed == 2

\* the features the commands are built from: the square, the square moved, and the point
CommandFeatures ==
  { Feature("P", "polygon", SquareP), Feature("P", "polygon", MovedP),
    Feature("T", "point", PointT) }

\* the arrays the batch commands are given: two features, and one id twice
Batches ==
  { <<Feature("T", "point", PointT), Feature("P", "polygon", MovedP)>>,
    <<Feature("P", "polygon", SquareP), Feature("P", "polygon", MovedP)>> }

\* the commands a client can build: an update of the square is given any snapshot as
\* its before
PushedCommands ==
  { AddFeatureCommand(f) : f \in CommandFeatures }
    \cup { UpdateFeatureCommand(a.id, b, a) :
              a \in { f \in CommandFeatures : f.id = "P" }, b \in CommandFeatures }
    \cup { RemoveFeatureCommand(id) : id \in {"P", "T"} }
    \cup { ClearAllFeaturesCommand }
    \cup { ReplaceAllFeaturesCommand(fs) : fs \in Batches }
    \cup { UpsertManyFeaturesCommand(fs) : fs \in Batches }

\* do() of c finds the store as the command takes it to be: an add finds its id free, an
\* update finds its before snapshot under the id of its after snapshot
Fits(st, c) ==
  IF c.type = "AddFeature" THEN st[c.after.id] = NoFeature
  ELSE IF c.type = "UpdateFeature" THEN st[c.after.id] = c.before
  ELSE TRUE

\* an add finds its id free; nothing is asked of the other commands
FitsAdd(st, c) == c.type = "AddFeature" => st[c.after.id] = NoFeature

\* what the last do() and undo() of the stack did, kept in snapped. op: "do", "undo" for
\* an undo right after a do, else "other"; pre, post: the store before and after the last
\* do; again: the last do was the redo right after that undo, prior being the store after
\* the do before it; base: the store before the first push of the commands on the stack;
\* exact, exactAdds: Fits and FitsAdd held at every do since base
DidDo(c, after, first, again) ==
  [ path |-> "cmd", op |-> "do", pre |-> store, post |-> after,
    again |-> again, prior |-> IF again THEN snapped.post ELSE after,
    base |-> IF first THEN store ELSE snapped.base,
    exact |-> Fits(store, c) /\ (first \/ snapped.exact),
    exactAdds |-> FitsAdd(store, c) /\ (first \/ snapped.exactAdds) ]

\* stack.push(cmd), by any client
PushCommand(c) ==
  /\ Len(done) < MaxPushed
  /\ \E m \in { StackPush(Machine(World, done, undone), c) } :
       /\ SetMachine(m)
       /\ snapped' = DidDo(c, m.W.store, done = <<>>, FALSE)
  /\ ghost' = [ghost EXCEPT !.op = "push"]

\* stack.undo()
UndoCommand ==
  /\ done # <<>>
  /\ SetMachine(StackUndo(Machine(World, done, undone)))
  /\ snapped' = [snapped EXCEPT !.op = IF @ = "do" THEN "undo" ELSE "other", !.again = FALSE]
  /\ ghost' = [ghost EXCEPT !.op = "undo"]

\* stack.redo()
RedoCommand ==
  /\ undone # <<>>
  /\ \E m \in { StackRedo(Machine(World, done, undone)) } :
       /\ SetMachine(m)
       /\ snapped' = DidDo(Last(undone), m.W.store, FALSE, snapped.op = "undo")
  /\ ghost' = [ghost EXCEPT !.op = "redo"]

NextCommands ==
  \/ \E c \in PushedCommands : PushCommand(c)
  \/ UndoCommand
  \/ RedoCommand

SpecCommands == Init /\ [][NextCommands]_vars

\* undo() until the undo list is empty
RECURSIVE UndoAll(_)
UndoAll(M) == IF M.done = <<>> THEN M ELSE UndoAll(StackUndo(M))

\* the store after every command on the stack was undone
StoreAllUndone == UndoAll(Machine(World, done, undone)).W.store

-----------------------------------------------------------------------------
(* The active handle and the deletion of a vertex, C34 *)

\* insertion and deletion of vertices with undo and redo between them
NextVertexUndo ==
  \/ NextVertex
  \/ Undo
  \/ Redo

SpecVertexUndo == Init /\ [][NextVertexUndo]_vars

\* activeHandleIndex is null or an index of the positions of the selected feature
ActiveHandleValid ==
  edit.activeHandleIndex # NoIndex =>
    /\ edit.selectedId # NoId
    /\ store[edit.selectedId] # NoFeature
    /\ edit.activeHandleIndex >= 0
    /\ edit.activeHandleIndex < Len(store[edit.selectedId].pos)

\* C34: whenever deleteActiveVertex pushes a command the feature has exactly one vertex
\* less after it, the vertex at the active handle index being the one removed; and the
\* active handle index, when not null, is always an index of the current vertex list of
\* the selected feature, also after an undo or a redo changed the number of vertices.
C34_DeletesActiveVertexAndIndexValid ==
  [][ /\ (ghost'.op = "edit" /\ ghost'.drag.phase = "delete" /\ Len(done') = Len(done) + 1) =>
           /\ Len(store'[edit.selectedId].pos) = Len(store[edit.selectedId].pos) - 1
           /\ store'[edit.selectedId].pos
                = WithoutPosition(store[edit.selectedId].pos, edit.activeHandleIndex)
      /\ ActiveHandleValid' ]_vars

\* a vertex of a feature with more than the least number of vertices was deleted
C34_DeletionPushed ==
  /\ ghost.drag.phase = "delete" /\ Len(done) = ghost.drag.done + 1
  /\ Len(store[ghost.drag.id].pos) = Len(ghost.drag.store[ghost.drag.id].pos) - 1

-----------------------------------------------------------------------------
(* A drag with no pointer-move, C35 *)

\* the square alone on the map; drags of its handles, one after another, with moves of
\* the pointer to one place, Escape and pointer-ups, while the stack has room
NextDrags ==
  \/ AddFeature(Feature("P", "polygon", SquareP))
  \/ \E pick \in Picks : LeftDown(pick)
  \/ MouseMove(Pt(0 - 20, 0 - 20))
  \/ LeftUp /\ Len(done') <= MaxCmds
  \/ KeyEscape
  \/ Undo

SpecDrags == Init /\ [][NextDrags]_vars

\* C35: a drag that begins on a handle and ends with no pointer-move in between pushes no
\* command and leaves the Feature Store and the redo stack unchanged.
C35_DragWithoutMoveChangesNothing ==
  [][ (ghost.drag.phase = "open" /\ ghost.drag.moves = 0 /\ edit.dragMode = "vertex" /\ LeftUp)
        => UNCHANGED <<store, done, undone>> ]_vars

\* the same for a drag that finds no preview left by an earlier drag
C35_FirstDragWithoutMove ==
  [][ ( /\ ghost.drag.phase = "open" /\ ghost.drag.moves = 0 /\ edit.dragMode = "vertex"
        /\ edit.dragPreviewPositions = <<>>
        /\ LeftUp )
        => UNCHANGED <<store, done, undone>> ]_vars

-----------------------------------------------------------------------------
(* The draw tools with the points they collect *)

\* the most points a drawing collects here
MaxPoints == 3

\* the positions the clicks of a drawing pick: three corners for a ring, two ends for
\* a line
DrawPoints(kind) ==
  IF kind = "polygon" THEN {Pt(0, 0), Pt(20, 0), Pt(20, 20)} ELSE {Pt(0, 0), Pt(20, 0)}

\* the id createPolygonFeature / createPolylineFeature gives the feature: one id a kind
DrawnId(kind) == IF kind = "polygon" THEN "P" ELSE "L"

\* the feature finish() makes of the points of the tool: snapPositions, taken after the
\* dedupe of BaseDrawTool.finish()
Drawn(kind) ==
  Feature(DrawnId(kind), kind,
          IF kind = "polygon" THEN draw.tool[kind].positions
          ELSE dedupeTailVertex(draw.tool[kind].positions))

\* LEFT_CLICK while the tool draws: addPoint(p) / onLeftClick(p)
LeftClick(kind, p) ==
  /\ draw.tool[kind].state = "drawing"
  /\ Len(draw.tool[kind].positions) < MaxPoints
  /\ DrawStep([draw EXCEPT !.tool[kind].positions = Append(@, p)])

\* undoPoint()
UndoPoint(kind) ==
  /\ draw.tool[kind].state = "drawing"
  /\ draw.tool[kind].positions # <<>>
  /\ DrawStep([draw EXCEPT !.tool[kind].positions = Front(@)])

\* RIGHT_CLICK while the tool draws: finish() on the points collected
RightClick(kind) ==
  RightClickFinish(Drawn(kind), FinishOutcome(kind, draw.tool[kind].positions))

\* the Finish button: finish() of the current tool on the points collected
FinishButton(kind) ==
  FinishDrawing(Drawn(kind), FinishOutcome(kind, draw.tool[kind].positions))

\* a finish() of the tool, however it is called
Finishes(kind) == RightClick(kind) \/ FinishButton(kind)

NextDraw ==
  \/ \E kind \in DrawKinds : StartDrawing(kind)
  \/ \E kind \in DrawKinds : \E p \in DrawPoints(kind) : LeftClick(kind, p)
  \/ \E kind \in DrawKinds : UndoPoint(kind)
  \/ \E kind \in DrawKinds : RightClick(kind)
  \/ \E kind \in DrawKinds : FinishButton(kind)
  \/ CancelDrawing
  \/ \E kind \in DrawKinds : ToolSettles(kind)

SpecDraw == Init /\ [][NextDraw]_vars

\* the step pushed exactly one command, an AddFeatureCommand
PushedOneAdd ==
  /\ Len(done') = Len(done) + 1
  /\ SubSeq(done', 1, Len(done)) = done
  /\ Last(done').type = "AddFeature"

\* C36: a finish() that is rejected (too few points, or a geometry that fails
\* validation) leaves the tool drawing with its points as they were and pushes no
\* command, and a tool becomes committed only in a step that pushed exactly one
\* AddFeatureCommand
C36_RejectedFinishKeepsDrawing ==
  [][\A kind \in DrawKinds :
       /\ ( /\ draw.tool[kind].state = "drawing"
            /\ FinishOutcome(kind, draw.tool[kind].positions) # "pushed"
            /\ Finishes(kind) )
          => /\ draw'.tool[kind].state = "drawing"
             /\ draw'.tool[kind].positions = draw.tool[kind].positions
             /\ done' = done
       /\ (draw.tool[kind].state # "committed" /\ draw'.tool[kind].state = "committed")
          => PushedOneAdd]_vars

\* the same of the polygon tool alone
C36_PolygonFinish ==
  [][ /\ ( /\ draw.tool["polygon"].state = "drawing"
           /\ FinishOutcome("polygon", draw.tool["polygon"].positions) # "pushed"
           /\ Finishes("polygon") )
         => /\ draw'.tool["polygon"].state = "drawing"
            /\ draw'.tool["polygon"].positions = draw.tool["polygon"].positions
            /\ UNCHANGED <<store, done, undone>>
      /\ ( /\ draw.tool["polygon"].state # "committed"
           /\ draw'.tool["polygon"].state = "committed" )
         => PushedOneAdd]_vars

\* what holds of the polyline tool: a finish() on fewer than two points pushes nothing
\* and leaves the tool drawing, and no finish() pushes more than one command
C36_PolylineFinish ==
  [][ /\ ( /\ draw.tool["polyline"].state = "drawing"
           /\ Len(draw.tool["polyline"].positions) < 2
           /\ Finishes("polyline") )
         => /\ draw'.tool["polyline"].state = "drawing"
            /\ draw'.tool["polyline"].positions = draw.tool["polyline"].positions
            /\ UNCHANGED <<store, done, undone>>
      /\ ( /\ draw.tool["polyline"].state # "committed"
           /\ draw'.tool["polyline"].state = "committed" )
         => (done' = done \/ PushedOneAdd)]_vars

-----------------------------------------------------------------------------
(* ToolController: the mode it reports and the tools it drives *)

\* ToolController.mode
mode(d, e) ==
  IF isDrawing(d) THEN "draw"
  ELSE IF e.selectedId # NoId THEN "edit"
  ELSE "idle"

\* the operations of ToolController on the draw tools, the clicks that give a drawing
\* its points, and the timers of the tools
NextController ==
  \/ \E kind \in DrawKinds : StartDrawing(kind)
  \/ \E kind \in DrawKinds : \E p \in DrawPoints(kind) : LeftClick(kind, p)
  \/ \E kind \in DrawKinds : UndoPoint(kind)
  \/ \E kind \in DrawKinds : FinishButton(kind)
  \/ CancelDrawing
  \/ EscapeDrawing
  \/ \E kind \in DrawKinds : ToolSettles(kind)

SpecController == Init /\ [][NextController]_vars

\* C37: under startDrawing, finishDrawing, cancelDrawing and Escape at most one draw
\* tool is drawing at a time, and the mode of ToolController is draw whenever some draw
\* tool is drawing
C37_OneToolDrawsAndModeIsDraw ==
  /\ Cardinality({k \in DrawKinds : draw.tool[k].state = "drawing"}) <= 1
  /\ AnyDrawing => mode(draw, edit) = "draw"

\* the tool ToolController holds as current is the only one it reports drawing
C37_ModeDrawMeansCurrentToolDraws ==
  mode(draw, edit) = "draw" =>
    /\ draw.currentDrawKind \in DrawKinds
    /\ draw.tool[draw.currentDrawKind].state = "drawing"

-----------------------------------------------------------------------------
(* PolygonDrawTool on its own: start, clicks, finish, cancel and the timer *)

\* start() of the polygon tool
PolygonStart == DrawStep(ToolStart(draw, "polygon"))

\* cancel() of the polygon tool
PolygonCancel == DrawStep(ToolCancel(draw, "polygon"))

NextPolygonTool ==
  \/ PolygonStart
  \/ \E p \in DrawPoints("polygon") : LeftClick("polygon", p)
  \/ UndoPoint("polygon")
  \/ RightClick("polygon")
  \/ PolygonCancel
  \/ ToolSettles("polygon")
  \/ Undo

SpecPolygonTool == Init /\ [][NextPolygonTool]_vars

\* the lock has an entry of the token
HasToken(d, token) == \E k \in 1..Len(d.activeTokens) : d.activeTokens[k].token = token

\* C38: after any sequence of start, finish, cancel and the timer of PolygonDrawTool
\* its release handle is non-null exactly when its state is drawing, the lock has the
\* token draw while it draws and has no draw token when it is idle or committed
C38_HoldsDrawTokenWhileDrawing ==
  LET t == draw.tool["polygon"]
  IN /\ t.releaseDrawLock <=> t.state = "drawing"
     /\ t.state = "drawing" => HasToken(draw, "draw")
     /\ t.state \in {"idle", "committed"} => ~HasToken(draw, "draw")

\* a finish() has committed a ring and the lock is free again
C38_Witness ==
  /\ draw.tool["polygon"].state = "committed"
  /\ store["P"] # NoFeature
  /\ ~draw.tool["polygon"].releaseDrawLock
  /\ draw.activeTokens = <<>>
  /\ draw.camera = [f \in Flags |-> TRUE]

-----------------------------------------------------------------------------
(* The editor state machine of fsm.ts *)

\* null of drawingKind, selectedId and selectedKind; lastEvent undefined
Null == "null"

\* DrawKind
FsmKinds == {"polygon", "polyline", "point"}

\* the ids SELECT events name
FsmIds == {"P", "L"}

\* initialEditorState
initialEditorState ==
  [ mode |-> "idle", drawingKind |-> Null, selectedId |-> Null, selectedKind |-> Null,
    lastEvent |-> Null ]

\* EditorEvent
EditorEvents ==
  [type : {"DRAW_START"}, kind : FsmKinds, id : {Null}]
    \cup [type : {"DRAW_FINISH", "DRAW_CANCEL", "DESELECT", "COMMITTED_CHANGED"},
          kind : {Null}, id : {Null}]
    \cup [type : {"SELECT"}, kind : FsmKinds, id : FsmIds]

\* reduceEditorState(prev, ev)
reduceEditorState(prev, ev) ==
  CASE ev.type = "DRAW_START" ->
         [prev EXCEPT !.mode = "drawing", !.drawingKind = ev.kind, !.selectedId = Null,
                      !.selectedKind = Null, !.lastEvent = ev.type]
    [] ev.type = "DRAW_FINISH" ->
         [prev EXCEPT !.mode = "idle", !.drawingKind = Null, !.lastEvent = ev.type]
    [] ev.type = "DRAW_CANCEL" ->
         [prev EXCEPT !.mode = "idle", !.drawingKind = Null, !.lastEvent = ev.type]
    [] ev.type = "SELECT" ->
         [prev EXCEPT !.mode = "editing", !.drawingKind = Null, !.selectedId = ev.id,
                      !.selectedKind = ev.kind, !.lastEvent = ev.type]
    [] ev.type = "DESELECT" ->
         [prev EXCEPT !.mode = "idle", !.drawingKind = Null, !.selectedId = Null,
                      !.selectedKind = Null, !.lastEvent = ev.type]
    [] ev.type = "COMMITTED_CHANGED" -> [prev EXCEPT !.lastEvent = ev.type]
    [] OTHER -> prev

\* the state the session holds: what the last call of the reducer returned
EditorStateNow == IF snapped.path = "fsm" THEN snapped.next ELSE initialEditorState

\* dispatch(ev): this._state = reduceEditorState(this._state, ev)
Dispatch(ev) ==
  /\ snapped' = [path |-> "fsm", prev |-> EditorStateNow, ev |-> ev,
                 next |-> reduceEditorState(EditorStateNow, ev)]
  /\ ghost' = [ghost EXCEPT !.op = "dispatch"]
  /\ UNCHANGED <<store, index, indexPoly, entity, done, undone, edit, draw>>

NextFsm == \E ev \in EditorEvents : Dispatch(ev)

SpecFsm == Init /\ [][NextFsm]_vars

\* C39: in every state reached from initialEditorState through reduceEditorState,
\* selectedId and selectedKind are non-null only when mode is editing, and drawingKind
\* is non-null exactly when mode is drawing
C39_FsmInvariants ==
  LET s == EditorStateNow
  IN /\ (s.selectedId # Null \/ s.selectedKind # Null) => s.mode = "editing"
     /\ s.drawingKind # Null <=> s.mode = "drawing"

\* the half the reducer keeps, and the converse of the other: drawingKind is non-null
\* exactly when mode is drawing, and in mode editing a feature is selected
C39_DrawingKindAndEditing ==
  LET s == EditorStateNow
  IN /\ s.drawingKind # Null <=> s.mode = "drawing"
     /\ s.mode = "editing" => (s.selectedId # Null /\ s.selectedKind # Null)
     /\ s.mode = "drawing" => (s.selectedId = Null /\ s.selectedKind = Null)

-----------------------------------------------------------------------------
(* CommandStack: undo and redo as operations on its two lists *)

\* the commands pushed here
StackCommands ==
  { AddFeatureCommand(Feature("P", "polygon", SquareP)),
    AddFeatureCommand(Feature("T", "point", PointT)),
    UpdateFeatureCommand("P", Feature("P", "polygon", SquareP), Feature("P", "polygon", MovedP)),
    RemoveFeatureCommand("P"),
    ClearAllFeaturesCommand }

NextStack ==
  \/ \E c \in StackCommands : PushCommand(c)
  \/ UndoCommand
  \/ RedoCommand

SpecStack == Init /\ [][NextStack]_vars

\* the most calls of undo() and of redo() made in a row
MaxCalls == MaxPushed + 2

\* n calls of undo() / of redo()
RECURSIVE UndoN(_, _)
UndoN(M, n) == IF n = 0 THEN M ELSE UndoN(StackUndo(M), n - 1)
RECURSIVE RedoN(_, _)
RedoN(M, n) == IF n = 0 THEN M ELSE RedoN(StackRedo(M), n - 1)

\* undoCount + redoCount
CountBoth(M) == Len(M.done) + Len(M.undone)

\* the command object, apart from what its do() records in it
Ident(c) ==
  IF c.type = "RemoveFeature" THEN [c EXCEPT !.before = NoFeature, !.saved = <<>>]
  ELSE [c EXCEPT !.saved = <<>>]
Idents(seq) == [k \in 1..Len(seq) |-> Ident(seq[k])]

\* undo() and redo() keep undoCount + redoCount, and change nothing on an empty list
ConservesCount(M) ==
  /\ CountBoth(StackUndo(M)) = CountBoth(M)
  /\ CountBoth(StackRedo(M)) = CountBoth(M)
  /\ M.done = <<>> => StackUndo(M) = M
  /\ M.undone = <<>> => StackRedo(M) = M

\* C40 as stated: undo() and redo() conserve undoCount + redoCount, undo() on an empty
\* undo list and redo() on an empty redo list change nothing, and n calls of undo()
\* followed by n calls of redo() restore the undo list, for any n
C40_UndoRedoRestoreForAnyN ==
  LET M == Machine(World, done, undone)
  IN /\ ConservesCount(M)
     /\ \A n \in 0..MaxCalls : Idents(RedoN(UndoN(M, n), n).done) = Idents(done)

\* C40 with n bounded: undo() and redo() conserve undoCount + redoCount and change
\* nothing on an empty list; n calls of undo() followed by n calls of redo() restore the
\* undo list when n is at most undoCount; for a larger n the undo list comes back with the
\* commands of the redo list the surplus calls of redo() find appended to it
C40_UndoRedoRestoreUpToUndoCount ==
  LET M == Machine(World, done, undone)
      extra(n) == Min2(n - Len(done), Len(undone))
  IN /\ ConservesCount(M)
     /\ \A n \in 0..Len(done) : Idents(RedoN(UndoN(M, n), n).done) = Idents(done)
     /\ \A n \in (Len(done) + 1)..MaxCalls :
          LET r == RedoN(UndoN(M, n), n).done
          IN /\ Len(r) = Len(done) + extra(n)
             /\ Idents(SubSeq(r, 1, Len(done))) = Idents(done)
             /\ \A k \in 1..extra(n) :
                  Ident(r[Len(done) + k]) = Ident(undone[Len(undone) + 1 - k])

\* a redo has run and both lists hold a command
C40_Witness ==
  /\ ghost.op = "redo"
  /\ done # <<>>
  /\ undone # <<>>

====
